---------------------------- MODULE Spec2Model ----------------------------
(***************************************************************************)
(* A model of llmextract: the chunker, the aligner, the chunk pipeline's   *)
(* globalization of offsets, the deduplicator and the two orchestrators    *)
(* (extract, with a thread pool; aextract, with a semaphore and gather).   *)
(*                                                                         *)
(* Strings are sequences of one-character strings.  Offsets are Python's:  *)
(* 0-based, intervals half-open.                                           *)
(***************************************************************************)
EXTENDS Integers, Sequences, FiniteSets, TLC

VARIABLES
    \* ---- chunker (chunker.py, chunk_text as a generator) ----
    ck_text,        \* text
    ck_size,        \* chunk_size
    ck_overlap,     \* chunk_overlap
    ck_keep,        \* keep_trailing
    ck_start,       \* the local variable start
    ck_out,         \* the TextChunks yielded so far
    ck_pc,          \* "idle" | "call" | "loop" | "done" | "error"
    \* ---- aligner (aligner.py, the loop of align_extractions) ----
    al_text,        \* original_text
    al_last,        \* last_match_end
    al_ext,         \* the extraction being processed (None between two)
    al_how,         \* the strategy that resolved it
    al_last2,       \* last_match_end of a second call, on the aligned list
    al_again,       \* what that call makes of the extraction in hand
    \* ---- deduplicator (services.py, _dedupe_extractions) ----
    dd_in,          \* the argument extractions
    dd_out,         \* the returned list (None before the call returns)
    dd_pc,          \* "idle" | "call" | "done"
    \* ---- one document through split, align, globalize, merge, dedupe ----
    e2_text,        \* the document text
    e2_size,        \* chunk_size
    e2_overlap,     \* chunk_overlap
    e2_subject,     \* the text that the windows holding it report
    e2_other,       \* a text those windows report before it (None: nothing)
    e2_result,      \* all_extractions after dedupe (None before the end)
    e2_pc,          \* "idle" | "run" | "done"
    \* ---- services.py: one call of extract or aextract ----
    run_variant,    \* "idle" | "extract" | "aextract"
    run_len,        \* len(text)
    run_size,       \* chunk_size
    run_overlap,    \* chunk_overlap
    run_n,          \* len(chunks)
    run_mode,       \* error_mode
    run_retries,    \* retries
    run_limit,      \* <<max_workers>>, or <<max_concurrency>> (None: not given)
    run_kwargs,     \* provider_kwargs (None: not given)
    run_sem,        \* the value of the semaphore (aextract)
    t_pc,           \* per window: "new" | "queued" | "gate" | "invoking" |
                    \*             "sleeping" | "done"
    t_attempt,      \* per window: attempt, the variable of the retry loop
    t_hist,         \* per window: what its invocations gave, in order
    t_result,       \* per window: the dict its task returned
    run_firstfail,  \* the window whose task was the first to return a failure
    run_order,      \* the windows in the order their tasks returned
    run_late,       \* as_completed: futures finished since it started, in order
    run_main,       \* "idle" | "call" | "start" | "submitted" | "gather" |
                    \* "collect" | "shutdown" | "returned" | "raised"
    run_snapshot,   \* as_completed: the futures finished when it started
    run_early,      \* those of run_snapshot not yet yielded
    run_taken,      \* the windows whose result the main flow took, in order
    run_all,        \* all_extractions
    run_errors,     \* errors
    run_raised,     \* what the call raised: the window and its error
    run_metadata,   \* the metadata of the document returned
    \* ---- services.py and parsing.py: one window, _process_chunk ----
    w_chunk,        \* chunk
    w_content,      \* the content of the response when it is a str
    w_mode,         \* error_mode
    w_retries,      \* retries
    w_attempt,      \* attempt, the variable of the retry loop
    w_calls,        \* invocations of the model so far
    w_response,     \* what the last invocation gave ("none" before the first)
    w_pc,           \* "idle" | "prompt" | "invoke" | "strip" | "load" |
                    \* "scan" | "build" | "done" | "returned" | "raised"
    w_text,         \* content, the response without its code fence
    w_raw,          \* raw_extractions
    w_result,       \* the dict _process_chunk returned
    w_all,          \* all_extractions of the main flow
    w_errors,       \* errors of the main flow
    \* ---- visualization.py: visualize on one document ----
    viz_text,       \* doc.text
    viz_extractions,\* doc.extractions
    viz_i,          \* extractions of the document gone through
    viz_out,        \* serial_extractions
    viz_pc          \* "idle" | "loop" | "done"

chunkVars == <<ck_text, ck_size, ck_overlap, ck_keep, ck_start, ck_out, ck_pc>>
alignVars == <<al_text, al_last, al_ext, al_how, al_last2, al_again>>

dedupeVars == <<dd_in, dd_out, dd_pc>>

e2eVars == <<e2_text, e2_size, e2_overlap, e2_subject, e2_other, e2_result, e2_pc>>

runVars == <<run_variant, run_len, run_size, run_overlap, run_n, run_mode,
             run_retries, run_limit, run_kwargs, run_sem, t_pc, t_attempt, t_hist, t_result,
             run_firstfail, run_order, run_late, run_main, run_snapshot,
             run_early, run_taken, run_all, run_errors, run_raised,
             run_metadata>>

windowVars == <<w_chunk, w_content, w_mode, w_retries, w_attempt, w_calls,
                w_response, w_pc, w_text, w_raw, w_result, w_all, w_errors>>

vizVars == <<viz_text, viz_extractions, viz_i, viz_out, viz_pc>>

vars == <<chunkVars, alignVars, dedupeVars, e2eVars, runVars, windowVars, vizVars>>

\* what an action of one component leaves alone
notChunk == <<alignVars, dedupeVars, e2eVars, runVars, windowVars, vizVars>>
notAlign == <<chunkVars, dedupeVars, e2eVars, runVars, windowVars, vizVars>>
notDedupe == <<chunkVars, alignVars, e2eVars, runVars, windowVars, vizVars>>
notE2E == <<chunkVars, alignVars, dedupeVars, runVars, windowVars, vizVars>>
notRun == <<chunkVars, alignVars, dedupeVars, e2eVars, windowVars, vizVars>>
notWindow == <<chunkVars, alignVars, dedupeVars, e2eVars, runVars, vizVars>>
notViz == <<chunkVars, alignVars, dedupeVars, e2eVars, runVars, windowVars>>

-----------------------------------------------------------------------------
(* Bounds of the model *)

MaxChunkText == 6       \* longest text given to the chunker
MaxChunkSize == 4       \* largest chunk_size given to the chunker
MaxWindowLen == 3       \* longest window text given to the aligner
MaxTextLen == 2         \* longest extraction text given to the aligner
MaxRecords == 2      \* records in a response that is what the prompt asks for
MaxWordLen == 3         \* longest extraction text of one lower-case word
MaxDedupeLen == 3       \* longest list given to the deduplicator
MaxDedupeStart == 1     \* largest interval start in that list
MaxDocLen == 4          \* longest document of the end-to-end pipeline
MaxDocChunk == 3        \* largest chunk_size of the end-to-end pipeline
MaxWindows == 2         \* most windows of a run whose windows may fail
MaxRetries == 2         \* largest retries
MaxCalls == 4           \* most model invocations of such a run
MaxLimit == 2           \* largest max_workers / max_concurrency
ManyWindows == 11       \* windows of the long run
MaxVizText == 2         \* longest text of a document given to visualize
MaxVizExts == 2         \* most extractions of that document
MaxVizEnd == 3          \* largest interval end among them

-----------------------------------------------------------------------------
(* Python helpers *)

None == <<>>

Min(a, b) == IF a <= b THEN a ELSE b
Max(a, b) == IF a >= b THEN a ELSE b

\* s[i:j] for 0 <= i, with Python's clipping of j
Slice(s, i, j) == SubSeq(s, i + 1, Min(j, Len(s)))

\* all sequences over S of length lo..hi
SeqsOf(S, lo, hi) == UNION {[1..n -> S] : n \in lo..hi}

-----------------------------------------------------------------------------
(* Characters.  "a" is a lower-case letter and "A" its upper case; " " is     *)
(* whitespace; "I" stands for U+0130 (capital I with dot above), the letter   *)
(* whose str.lower() is two code points, written "i" and "d" (U+0069 and the  *)
(* combining dot U+0307); "z" stands for the zero-width space U+200B.         *)

Whitespace == {" "}
ZeroWidth == {"z"}
WordChars == {"a", "A", "I", "i", "7"}

\* str.lower() and str.casefold() of one character (they agree on these);
\* "K" stands for the key "Extraction_Class", written with capitals, whose
\* lower case is the key "C"
Lower1(c) ==
    CASE c = "A" -> <<"a">>
      [] c = "I" -> <<"i", "d">>
      [] c = "K" -> <<"C">>
      [] OTHER -> <<c>>

RECURSIVE Lower(_)
Lower(s) == IF s = <<>> THEN <<>> ELSE Lower1(Head(s)) \o Lower(Tail(s))

\* the case folding of re.IGNORECASE: one character to one character
RegexFold(c) ==
    CASE c = "A" -> "a"
      [] c = "I" -> "i"
      [] OTHER -> c

\* str.find(sub, start): the lowest index >= start where sub occurs, or -1
Find(s, sub, start) ==
    LET hits == {i \in start..(Len(s) - Len(sub)) :
                    SubSeq(s, i + 1, i + Len(sub)) = sub}
    IN  IF hits = {} THEN 0 - 1
        ELSE CHOOSE i \in hits : \A j \in hits : i <= j

\* str.strip()
RECURSIVE LStrip(_)
LStrip(s) == IF s # <<>> /\ Head(s) \in Whitespace THEN LStrip(Tail(s)) ELSE s

RECURSIVE RStrip(_)
RStrip(s) ==
    IF s # <<>> /\ s[Len(s)] \in Whitespace
    THEN RStrip(SubSeq(s, 1, Len(s) - 1))
    ELSE s

Strip(s) == RStrip(LStrip(s))

\* str.split(), and [t for t in re.split(r"\s+", s) if t]: the maximal runs
\* of non-whitespace characters, in order
RECURSIVE Tokens(_)
Tokens(s) ==
    LET t == LStrip(s)
        ends == {k \in 1..Len(t) : t[k] \in Whitespace}
        n == IF ends = {} THEN Len(t)
             ELSE (CHOOSE k \in ends : \A j \in ends : k <= j) - 1
    IN  IF t = <<>> THEN <<>>
        ELSE <<SubSeq(t, 1, n)>> \o Tokens(SubSeq(t, n + 1, Len(t)))

\* " ".join(tokens)
RECURSIVE JoinSpace(_)
JoinSpace(toks) ==
    IF toks = <<>> THEN <<>>
    ELSE IF Len(toks) = 1 THEN toks[1]
    ELSE toks[1] \o <<" ">> \o JoinSpace(Tail(toks))

-----------------------------------------------------------------------------
(* chunker.py *)

TextChunk(text, start_char) == [text |-> text, start_char |-> start_char]

\* (mutant) a negative overlap is let through
ChunkConfigInvalid_AnyOverlap(chunk_size, chunk_overlap) ==
    \/ chunk_size <= 0
    \/ chunk_size <= chunk_overlap

\* the three ValueError guards of chunk_text
ChunkConfigInvalid(chunk_size, chunk_overlap) ==
    \/ chunk_size <= 0
    \/ chunk_overlap < 0
    \/ chunk_size <= chunk_overlap

\* (mutant) the trailing window is kept only when it is also the first
ChunkIter_AndFirst(text, chunk_size, chunk_overlap, keep_trailing, start) ==
    LET text_len == Len(text)
        end == start + chunk_size
    IN  IF end >= text_len
        THEN [yield |-> IF keep_trailing /\ start = 0
                        THEN <<[text |-> Slice(text, start, text_len),
                                start_char |-> start]>>
                        ELSE <<>>,
              break |-> TRUE,
              start |-> start]
        ELSE [yield |-> <<[text |-> Slice(text, start, end), start_char |-> start]>>,
              break |-> FALSE,
              start |-> start + chunk_size - chunk_overlap]

\* (mutant) a window that is not the last runs to the end of the text
ChunkIter_WholeTail(text, chunk_size, chunk_overlap, keep_trailing, start) ==
    LET text_len == Len(text)
        end == start + chunk_size
    IN  IF end >= text_len
        THEN [yield |-> IF keep_trailing \/ start = 0
                        THEN <<[text |-> Slice(text, start, text_len),
                                start_char |-> start]>>
                        ELSE <<>>,
              break |-> TRUE,
              start |-> start]
        ELSE [yield |-> <<[text |-> Slice(text, start, text_len),
                           start_char |-> start]>>,
              break |-> FALSE,
              start |-> start + chunk_size - chunk_overlap]

\* (mutant) the next window starts where the previous one ended
ChunkIter_NoOverlap(text, chunk_size, chunk_overlap, keep_trailing, start) ==
    LET text_len == Len(text)
        end == start + chunk_size
    IN  IF end >= text_len
        THEN [yield |-> IF keep_trailing \/ start = 0
                        THEN <<[text |-> Slice(text, start, text_len),
                                start_char |-> start]>>
                        ELSE <<>>,
              break |-> TRUE,
              start |-> start]
        ELSE [yield |-> <<[text |-> Slice(text, start, end), start_char |-> start]>>,
              break |-> FALSE,
              start |-> start + chunk_size]

\* one iteration of `while start < text_len`: what it yields, and whether the
\* loop goes on (with the next start) or breaks
ChunkIter(text, chunk_size, chunk_overlap, keep_trailing, start) ==
    LET text_len == Len(text)
        end == start + chunk_size
    IN  IF end >= text_len
        THEN [yield |-> IF keep_trailing \/ start = 0
                        THEN <<TextChunk(Slice(text, start, text_len), start)>>
                        ELSE <<>>,
              break |-> TRUE,
              start |-> start]
        ELSE [yield |-> <<TextChunk(Slice(text, start, end), start)>>,
              break |-> FALSE,
              start |-> start + chunk_size - chunk_overlap]

RECURSIVE ChunkLoop(_, _, _, _, _)
ChunkLoop(text, chunk_size, chunk_overlap, keep_trailing, start) ==
    IF ~(start < Len(text)) THEN <<>>
    ELSE LET it == ChunkIter(text, chunk_size, chunk_overlap, keep_trailing, start)
         IN  IF it.break THEN it.yield
             ELSE it.yield \o ChunkLoop(text, chunk_size, chunk_overlap,
                                        keep_trailing, it.start)

\* list(chunk_text(text, chunk_size, chunk_overlap, keep_trailing)) for a valid
\* configuration
chunk_text(text, chunk_size, chunk_overlap, keep_trailing) ==
    IF Len(text) = 0 THEN <<>>
    ELSE ChunkLoop(text, chunk_size, chunk_overlap, keep_trailing, 0)

(* The generator, one step per action *)

ChunkChars == {"a", "b"}

ChunkIdle ==
    /\ ck_text = <<>> /\ ck_size = 0 /\ ck_overlap = 0 /\ ck_keep = FALSE
    /\ ck_start = 0 /\ ck_out = <<>> /\ ck_pc = "idle"

\* the worked example of the chunking contract: a text of 50 characters split
\* with chunk_size 20 and chunk_overlap 5
ChunkScenario ==
    [text |-> [i \in 1..50 |-> IF i % 2 = 1 THEN "a" ELSE "b"],
     chunk_size |-> 20, chunk_overlap |-> 5]

ChunkInit ==
    /\ \/ /\ ck_text \in SeqsOf(ChunkChars, 0, MaxChunkText)
          /\ ck_size \in 0..MaxChunkSize
          /\ ck_overlap \in (0 - 1)..MaxChunkSize
       \/ /\ ck_text = ChunkScenario.text
          /\ ck_size = ChunkScenario.chunk_size
          /\ ck_overlap = ChunkScenario.chunk_overlap
    /\ ck_keep \in BOOLEAN
    /\ ck_start = 0
    /\ ck_out = <<>>
    /\ ck_pc = "call"

\* the guards raise before anything is yielded
ChunkRaise ==
    /\ ck_pc = "call"
    /\ ChunkConfigInvalid(ck_size, ck_overlap)
    /\ ck_pc' = "error"
    /\ UNCHANGED <<ck_text, ck_size, ck_overlap, ck_keep, ck_start, ck_out>>
    /\ UNCHANGED notChunk

\* text_len == 0: return
ChunkEmpty ==
    /\ ck_pc = "call"
    /\ ~ChunkConfigInvalid(ck_size, ck_overlap)
    /\ Len(ck_text) = 0
    /\ ck_pc' = "done"
    /\ UNCHANGED <<ck_text, ck_size, ck_overlap, ck_keep, ck_start, ck_out>>
    /\ UNCHANGED notChunk

ChunkEnter ==
    /\ ck_pc = "call"
    /\ ~ChunkConfigInvalid(ck_size, ck_overlap)
    /\ Len(ck_text) # 0
    /\ ck_pc' = "loop"
    /\ UNCHANGED <<ck_text, ck_size, ck_overlap, ck_keep, ck_start, ck_out>>
    /\ UNCHANGED notChunk

\* one pass through the while loop
ChunkStep ==
    /\ ck_pc = "loop"
    /\ IF ck_start < Len(ck_text)
       THEN LET it == ChunkIter(ck_text, ck_size, ck_overlap, ck_keep, ck_start)
            IN  /\ ck_out' = ck_out \o it.yield
                /\ ck_start' = it.start
                /\ ck_pc' = IF it.break THEN "done" ELSE "loop"
       ELSE /\ ck_pc' = "done"
            /\ UNCHANGED <<ck_start, ck_out>>
    /\ UNCHANGED <<ck_text, ck_size, ck_overlap, ck_keep>>
    /\ UNCHANGED notChunk

ChunkNext == ChunkRaise \/ ChunkEmpty \/ ChunkEnter \/ ChunkStep

-----------------------------------------------------------------------------
(* data_models.py *)

\* CharInterval's validators: both ends non-negative, start < end
CharIntervalValid(start, end) == start >= 0 /\ end >= 0 /\ start < end

\* an Extraction; char_interval is None or <<start, end>>; attributes stands
\* for the attribute mapping
Extraction(cls, text, attributes) ==
    [extraction_class |-> cls, extraction_text |-> text,
     attributes |-> attributes, char_interval |-> None]

-----------------------------------------------------------------------------
(* aligner.py *)

\* _clean_for_pattern: NFC normalization (the identity on these characters)
\* and removal of the zero-width characters
RECURSIVE _clean_for_pattern(_)
_clean_for_pattern(s) ==
    IF s = <<>> THEN <<>>
    ELSE IF Head(s) \in ZeroWidth THEN _clean_for_pattern(Tail(s))
    ELSE <<Head(s)>> \o _clean_for_pattern(Tail(s))

\* \b at offset p of text
WordBoundary(text, p) ==
    (p > 0 /\ text[p] \in WordChars) # (p < Len(text) /\ text[p + 1] \in WordChars)

\* the literal tok at offset p of text under re.IGNORECASE
LiteralAt(text, tok, p) ==
    /\ p + Len(tok) <= Len(text)
    /\ \A k \in 1..Len(tok) : RegexFold(text[p + k]) = RegexFold(tok[k])

\* the length of the whitespace run of text at offset p
RECURSIVE SpaceRun(_, _)
SpaceRun(text, p) ==
    IF p < Len(text) /\ text[p + 1] \in Whitespace
    THEN 1 + SpaceRun(text, p + 1)
    ELSE 0

\* tok1 \s+ tok2 \s+ ... at offset p: the end offset of the match, or -1
RECURSIVE TokensAt(_, _, _)
TokensAt(text, toks, p) ==
    IF ~LiteralAt(text, toks[1], p) THEN 0 - 1
    ELSE LET q == p + Len(toks[1])
             run == SpaceRun(text, q)
         IN  IF Len(toks) = 1 THEN q
             ELSE IF run = 0 THEN 0 - 1
             ELSE TokensAt(text, Tail(toks), q + run)

\* strategy 3: re.search(pattern, original_text, re.IGNORECASE), the pattern
\* being \b tok1 \s+ ... tokn \b, or the escaped text when it has no token:
\* the leftmost match as <<start, end>>, or None
RegexSearch(normalized_raw, original_text) ==
    LET tokens == Tokens(normalized_raw)
        endAt(p) ==
            IF tokens # <<>>
            THEN IF WordBoundary(original_text, p)
                 THEN LET e == TokensAt(original_text, tokens, p)
                      IN  IF e # 0 - 1 /\ WordBoundary(original_text, e)
                          THEN e ELSE 0 - 1
                 ELSE 0 - 1
            ELSE IF LiteralAt(original_text, normalized_raw, p)
                 THEN p + Len(normalized_raw) ELSE 0 - 1
        hits == {p \in 0..Len(original_text) : endAt(p) # 0 - 1}
    IN  IF hits = {} THEN None
        ELSE LET p == CHOOSE h \in hits : \A j \in hits : h <= j
             IN  <<p, endAt(p)>>

\* the length of the common run of a from offset i and b from offset j
RECURSIVE CommonRun(_, _, _, _)
CommonRun(a, b, i, j) ==
    IF i < Len(a) /\ j < Len(b) /\ a[i + 1] = b[j + 1]
    THEN 1 + CommonRun(a, b, i + 1, j + 1)
    ELSE 0

\* difflib.SequenceMatcher.find_longest_match without junk: the longest
\* common block of a and b, the earliest in a and then in b among the longest,
\* as <<i, j, k>> (k = 0 when there is none)
LongestMatch(a, b) ==
    LET blocks == {<<t[1], t[2], CommonRun(a, b, t[1], t[2])>> :
                      t \in {u \in (0..(Len(a) - 1)) \X (0..(Len(b) - 1)) :
                                a[u[1] + 1] = b[u[2] + 1]}}
        before(t, u) ==
            \/ t[3] > u[3]
            \/ t[3] = u[3] /\ t[1] < u[1]
            \/ t[3] = u[3] /\ t[1] = u[1] /\ t[2] <= u[2]
    IN  IF blocks = {} THEN <<0, 0, 0>>
        ELSE CHOOSE t \in blocks : \A u \in blocks : before(t, u)

\* the number of matched characters of get_matching_blocks(): the longest
\* block, then the same to its left and to its right
RECURSIVE MatchCount(_, _)
MatchCount(a, b) ==
    IF a = <<>> \/ b = <<>> THEN 0
    ELSE LET m == LongestMatch(a, b)
         IN  IF m[3] = 0 THEN 0
             ELSE m[3]
                  + MatchCount(SubSeq(a, 1, m[1]), SubSeq(b, 1, m[2]))
                  + MatchCount(SubSeq(a, m[1] + m[3] + 1, Len(a)),
                               SubSeq(b, m[2] + m[3] + 1, Len(b)))

\* max(tokens, key=len): the first of the longest tokens
LongestToken(tokens) ==
    LET k == CHOOSE i \in 1..Len(tokens) :
                 /\ \A j \in 1..Len(tokens) : Len(tokens[j]) <= Len(tokens[i])
                 /\ \A j \in 1..(i - 1) : Len(tokens[j]) < Len(tokens[i])
    IN  tokens[k]

\* the anchor positions: the occurrences of the token found by repeated
\* find from pos, stepping over each one
RECURSIVE Anchors(_, _, _)
Anchors(lower_original, token, pos) ==
    LET at == Find(lower_original, token, pos)
    IN  IF at = 0 - 1 THEN {}
        ELSE {at} \cup Anchors(lower_original, token, at + Max(1, Len(token)))

\* range(0, max(1, len(lower_original) - 1), step)
SampledStarts(lower_original, lowered) ==
    LET step == Max(1, Len(lowered) \div 10)
    IN  {c \in 0..(Max(1, Len(lower_original) - 1) - 1) : c % step = 0}

\* strategy 4: the best-scoring candidate span as <<start, end>> when its
\* ratio 2*M/T reaches fuzzy_threshold (0.85 = 17/20), else None
FuzzySearch(lowered, lower_original) ==
    LET tokens == Tokens(lowered)
        anchors == IF tokens # <<>> /\ Len(LongestToken(tokens)) >= 4
                   THEN Anchors(lower_original, LongestToken(tokens), 0)
                   ELSE {}
        candidates == IF anchors # {} THEN anchors
                      ELSE SampledStarts(lower_original, lowered)
        target_len == Max(1, (Len(lowered) * 6) \div 5)
        cand_end(c) == Min(Len(lower_original), c + target_len)
        sub(c) == Slice(lower_original, c, cand_end(c))
        \* <<candidate, M, T>>: its ratio is 2*M/T
        scored == {<<c, MatchCount(lowered, sub(c)), Len(lowered) + Len(sub(c))>> :
                      c \in {d \in candidates : sub(d) # <<>>}}
        scoring == {x \in scored : x[2] > 0}
        \* ratio(x) > ratio(y), and ratio(x) >= ratio(y)
        better(x, y) == x[2] * y[3] > y[2] * x[3]
        atLeast(x, y) == x[2] * y[3] >= y[2] * x[3]
    IN  IF scoring = {} THEN None
        ELSE LET best == CHOOSE x \in scoring :
                            /\ \A y \in scoring : atLeast(x, y)
                            /\ \A y \in scoring : y[1] < x[1] => better(x, y)
             IN  IF 20 * 2 * best[2] >= 17 * best[3]
                 THEN <<best[1], cand_end(best[1])>>
                 ELSE None

\* (mutant) the in-order search of an extraction that has an interval starts
\* after that interval
AlignOne_AfterOwn(extraction, original_text, last_match_end) ==
    LET raw_text == extraction.extraction_text
        lower_original == Lower(original_text)
        normalized_raw == _clean_for_pattern(raw_text)
        lower_search == Lower(normalized_raw)
        ordered == Find(lower_original, lower_search,
                        IF extraction.char_interval # None
                        THEN extraction.char_interval[2]
                        ELSE last_match_end)
        start_index == IF ordered # 0 - 1 THEN ordered
                       ELSE Find(lower_original, lower_search, 0)
        keep(how) == [char_interval |-> extraction.char_interval,
                      last_match_end |-> last_match_end, how |-> how]
        set(sidx, eidx, how) ==
            [char_interval |-> <<sidx, eidx>>,
             last_match_end |-> IF sidx >= last_match_end THEN eidx
                                ELSE last_match_end,
             how |-> how]
    IN  IF raw_text = <<>> \/ Strip(raw_text) = <<>> THEN keep("skip")
        ELSE IF start_index = 0 - 1
        THEN LET m == RegexSearch(normalized_raw, original_text)
             IN  IF m # None /\ CharIntervalValid(m[1], m[2])
                 THEN set(m[1], m[2], "regex")
                 ELSE LET best_span == FuzzySearch(lower_search, lower_original)
                      IN  IF best_span # None
                             /\ CharIntervalValid(best_span[1], best_span[2])
                          THEN set(best_span[1], best_span[2], "fuzzy")
                          ELSE keep("none")
        ELSE LET end_index == Min(start_index + Len(raw_text), Len(original_text))
             IN  IF CharIntervalValid(start_index, end_index)
                 THEN set(start_index, end_index,
                          IF ordered # 0 - 1 THEN "ordered" ELSE "unordered")
                 ELSE keep("none")

\* One pass of the loop `for idx, extraction in enumerate(extractions)`:
\* the extraction's char_interval afterwards, the new last_match_end and the
\* strategy that set the interval ("skip": empty text; "ordered",
\* "unordered": strategies 1 and 2; "regex"; "fuzzy"; "none": nothing set)
AlignOne(extraction, original_text, last_match_end) ==
    LET raw_text == extraction.extraction_text
        lower_original == Lower(original_text)
        normalized_raw == _clean_for_pattern(raw_text)
        lower_search == Lower(normalized_raw)
        ordered == Find(lower_original, lower_search, last_match_end)
        start_index == IF ordered # 0 - 1 THEN ordered
                       ELSE Find(lower_original, lower_search, 0)
        keep(how) == [char_interval |-> extraction.char_interval,
                      last_match_end |-> last_match_end, how |-> how]
        set(sidx, eidx, how) ==
            [char_interval |-> <<sidx, eidx>>,
             last_match_end |-> IF sidx >= last_match_end THEN eidx
                                ELSE last_match_end,
             how |-> how]
    IN  IF raw_text = <<>> \/ Strip(raw_text) = <<>> THEN keep("skip")
        ELSE IF start_index = 0 - 1
        THEN LET m == RegexSearch(normalized_raw, original_text)
             IN  IF m # None /\ CharIntervalValid(m[1], m[2])
                 THEN set(m[1], m[2], "regex")
                 ELSE LET best_span == FuzzySearch(lower_search, lower_original)
                      IN  IF best_span # None
                             /\ CharIntervalValid(best_span[1], best_span[2])
                          THEN set(best_span[1], best_span[2], "fuzzy")
                          ELSE keep("none")
        ELSE LET end_index == Min(start_index + Len(raw_text), Len(original_text))
             IN  IF CharIntervalValid(start_index, end_index)
                 THEN set(start_index, end_index,
                          IF ordered # 0 - 1 THEN "ordered" ELSE "unordered")
                 ELSE keep("none")

\* align_extractions(extractions, original_text) from the marker value last:
\* the same extractions, in order, with their intervals
RECURSIVE AlignFrom(_, _, _)
\* (mutant) an extraction that no strategy resolved is not appended
AlignTurn_DropUnresolved(extractions, original_text, r) ==
    (IF r.char_interval = None THEN <<>>
     ELSE <<[Head(extractions) EXCEPT !.char_interval = r.char_interval]>>)
    \o AlignFrom(Tail(extractions), original_text, r.last_match_end)

\* one turn of the loop of align_extractions, r being what the strategies
\* gave for the first extraction
AlignTurn(extractions, original_text, r) ==
    <<[Head(extractions) EXCEPT !.char_interval = r.char_interval]>>
    \o AlignFrom(Tail(extractions), original_text, r.last_match_end)

AlignFrom(extractions, original_text, last_match_end) ==
    IF extractions = <<>> THEN <<>>
    ELSE AlignTurn(extractions, original_text,
                   AlignOne(Head(extractions), original_text, last_match_end))

align_extractions(extractions, original_text) ==
    AlignFrom(extractions, original_text, 0)

(* The loop of align_extractions, one extraction per action.  The list is   *)
(* given one extraction at a time and may have any length; each is a        *)
(* validated Extraction (its text stripped and non-empty) with no interval  *)
(* yet.                                                                      *)

AlignChars == {"a", "A", " ", "I"}

\* Extraction._coerce_to_str_and_strip and _validate_required, on the text
ValidText(t) == t # <<>> /\ Strip(t) = t

AlignTexts ==
    {t \in SeqsOf(AlignChars, 1, MaxTextLen) : ValidText(t)}
    \cup SeqsOf(AlignChars \ (Whitespace \cup {"A"}), 1, MaxWordLen)

AlignIdle ==
    /\ al_text = <<>> /\ al_last = 0 /\ al_ext = None /\ al_how = "idle"
    /\ al_last2 = 0 /\ al_again = None

AlignInit ==
    /\ al_text \in SeqsOf(AlignChars, 0, MaxWindowLen)
    /\ al_last = 0
    /\ al_ext = None
    /\ al_how = "next"
    /\ al_last2 = 0
    /\ al_again = None

\* extraction.char_interval = CharInterval(...), or left as it was
Aligned(extraction, r) == [extraction EXCEPT !.char_interval = r.char_interval]

\* the same turn of the loop in a second call align_extractions(aligned, text)
\* made on the list the first call returned: r2 is what the strategies give
\* for the extraction as the first call left it
AlignSecond(first, r2) ==
    /\ al_again' = Aligned(first, r2)
    /\ al_last2' = r2.last_match_end

\* one turn of the loop, r being what the strategies gave
AlignFirst(first, r) ==
    /\ al_ext' = first
    /\ al_last' = r.last_match_end
    /\ al_how' = r.how
    /\ AlignSecond(first, AlignOne(first, al_text, al_last2))

\* the body of the loop for the next extraction of the list
AlignStep ==
    /\ al_how # "idle"
    /\ al_ext = None
    /\ \E t \in AlignTexts :
          LET r == AlignOne(Extraction("c", t, 0), al_text, al_last)
          IN  AlignFirst(Aligned(Extraction("c", t, 0), r), r)
    /\ UNCHANGED al_text
    /\ UNCHANGED notAlign

\* aligned.append(extraction), and on to the next one
AlignAppend ==
    /\ al_ext # None
    /\ al_ext' = None
    /\ al_again' = None
    /\ al_how' = "next"
    /\ UNCHANGED <<al_text, al_last, al_last2>>
    /\ UNCHANGED notAlign

AlignNext == AlignStep \/ AlignAppend

-----------------------------------------------------------------------------
(* services.py: the deduplicator *)

\* _normalize_text_for_dedupe: " ".join(s.split()).casefold()
_normalize_text_for_dedupe(s) == Lower(JoinSpace(Tokens(s)))

\* the position of key among the keys of the dict seen, 0 when absent
SeenAt(seen, key) ==
    IF \E i \in 1..Len(seen) : seen[i].key = key
    THEN CHOOSE i \in 1..Len(seen) : seen[i].key = key
    ELSE 0

\* (mutant) the key is built from the text as given
DedupeStep_RawKey(seen, ext) ==
    LET key == <<ext.extraction_class, ext.extraction_text>>
        at == SeenAt(seen, key)
    IN  IF at = 0 THEN Append(seen, [key |-> key, ext |-> ext])
        ELSE IF /\ ext.char_interval # None
                /\ \/ seen[at].ext.char_interval = None
                   \/ ext.char_interval[1] < seen[at].ext.char_interval[1]
        THEN [seen EXCEPT ![at].ext = ext]
        ELSE seen

\* (mutant) a missing interval counts as start 0 instead of infinity
DedupeStep_NoneIsZero(seen, ext) ==
    LET key == <<ext.extraction_class,
                 _normalize_text_for_dedupe(ext.extraction_text)>>
        at == SeenAt(seen, key)
        startOf(e) == IF e.char_interval # None THEN e.char_interval[1] ELSE 0
    IN  IF at = 0 THEN Append(seen, [key |-> key, ext |-> ext])
        ELSE IF startOf(ext) < startOf(seen[at].ext)
        THEN [seen EXCEPT ![at].ext = ext]
        ELSE seen

\* (mutant) the first extraction of a key is kept whatever comes after it
DedupeStep_KeepFirst(seen, ext) ==
    LET key == <<ext.extraction_class,
                 _normalize_text_for_dedupe(ext.extraction_text)>>
        at == SeenAt(seen, key)
    IN  IF at = 0 THEN Append(seen, [key |-> key, ext |-> ext])
        ELSE seen

\* one pass of `for ext in extractions`: seen is the dict, as its entries in
\* insertion order; a start of float("inf") is one no start is below
DedupeStep(seen, ext) ==
    LET key == <<ext.extraction_class,
                 _normalize_text_for_dedupe(ext.extraction_text)>>
        at == SeenAt(seen, key)
        \* new_start < cur_start
        newIsLess ==
            /\ ext.char_interval # None
            /\ \/ seen[at].ext.char_interval = None
               \/ ext.char_interval[1] < seen[at].ext.char_interval[1]
    IN  IF at = 0 THEN Append(seen, [key |-> key, ext |-> ext])
        ELSE IF newIsLess THEN [seen EXCEPT ![at].ext = ext]
        ELSE seen

RECURSIVE DedupeLoop(_, _)
DedupeLoop(seen, extractions) ==
    IF extractions = <<>> THEN seen
    ELSE DedupeLoop(DedupeStep(seen, Head(extractions)), Tail(extractions))

\* _dedupe_extractions: list(seen.values())
_dedupe_extractions(extractions) ==
    LET seen == DedupeLoop(<<>>, extractions)
    IN  [i \in 1..Len(seen) |-> seen[i].ext]

(* The deduplicator on a list of extractions *)

DedupeClasses == {"c", "k"}
DedupeTexts == {<<"A", " ", "a">>, <<"a", " ", " ", "a">>, <<"a", " ", "a">>}

DedupeExts ==
    {[extraction_class |-> cls, extraction_text |-> t, attributes |-> 0,
      char_interval |-> iv] :
        cls \in DedupeClasses, t \in DedupeTexts,
        iv \in {None} \cup {<<st, st + 1>> : st \in 0..MaxDedupeStart}}

DedupeIdle == dd_in = <<>> /\ dd_out = None /\ dd_pc = "idle"

DedupeInit ==
    /\ dd_in \in SeqsOf(DedupeExts, 0, MaxDedupeLen)
    /\ dd_out = None
    /\ dd_pc = "call"

DedupeCall ==
    /\ dd_pc = "call"
    /\ dd_out' = _dedupe_extractions(dd_in)
    /\ dd_pc' = "done"
    /\ UNCHANGED dd_in
    /\ UNCHANGED notDedupe

DedupeNext == DedupeCall

-----------------------------------------------------------------------------
(* parsing.py: from the normalized records of one window to its extractions *)

\* Extraction(**item) for each record, skipping the ones the validators
\* reject: class and text are stripped and must be non-empty
RECURSIVE Validated(_)
Validated(transformed) ==
    IF transformed = <<>> THEN <<>>
    ELSE LET item == Head(transformed)
             text == Strip(item.extraction_text)
         IN  (IF text = <<>> \/ item.extraction_class = ""
              THEN <<>>
              ELSE <<Extraction(item.extraction_class, text, item.attributes)>>)
             \o Validated(Tail(transformed))

\* (mutant) the window's start is not added to the intervals
Globalize_NoShift(aligned_in_chunk, chunk) == aligned_in_chunk

\* chunk.start_char added to both ends of every interval found in the window
Globalize(aligned_in_chunk, chunk) ==
    [i \in 1..Len(aligned_in_chunk) |->
        IF aligned_in_chunk[i].char_interval # None
        THEN [aligned_in_chunk[i] EXCEPT
                 !.char_interval = <<@[1] + chunk.start_char,
                                      @[2] + chunk.start_char>>]
        ELSE aligned_in_chunk[i]]

\* parse_and_align_chunk from `transformed` on: validate, align in the
\* window, globalize
AlignAndGlobalize(transformed, chunk) ==
    Globalize(align_extractions(Validated(transformed), chunk.text), chunk)

-----------------------------------------------------------------------------
(* One document end to end: chunk_text, then per window the chunk pipeline, *)
(* all_extractions.extend in the order the windows complete, then           *)
(* _dedupe_extractions (services.py, extract with dedupe=True and no        *)
(* failing window).                                                          *)

RECURSIVE Flatten(_)
Flatten(lists) == IF lists = <<>> THEN <<>> ELSE Head(lists) \o Flatten(Tail(lists))

\* the orders in which n windows can complete
Orders(n) == {p \in [1..n -> 1..n] : \A i, j \in 1..n : p[i] = p[j] => i = j}

\* the offsets at which t occurs in s, character for character
Occurrences(t, s) ==
    {i \in 0..(Len(s) - Len(t)) : SubSeq(s, i + 1, i + Len(t)) = t}

\* the window holds the whole span [at, at + n)
Holds(chunk, at, n) ==
    chunk.start_char <= at /\ at + n <= chunk.start_char + Len(chunk.text)

E2EChunks == chunk_text(e2_text, e2_size, e2_overlap, TRUE)

\* where the subject is in the document
E2EAt == CHOOSE i \in Occurrences(e2_subject, e2_text) : TRUE

\* some window holds the subject
E2EHeld(chunks) ==
    \E i \in 1..Len(chunks) : Holds(chunks[i], E2EAt, Len(e2_subject))

\* what the model reports for a window: the subject, with class "c", when the
\* window holds its occurrence (after the other text, class "k", if any)
E2EReport(chunk) ==
    IF Holds(chunk, E2EAt, Len(e2_subject))
    THEN (IF e2_other = None THEN <<>>
          ELSE <<[extraction_class |-> "k", extraction_text |-> e2_other,
                  attributes |-> 0]>>)
         \o <<[extraction_class |-> "c", extraction_text |-> e2_subject,
               attributes |-> 0]>>
    ELSE <<>>

E2EIdle ==
    /\ e2_text = <<>> /\ e2_size = 0 /\ e2_overlap = 0 /\ e2_subject = <<>>
    /\ e2_other = None /\ e2_result = None /\ e2_pc = "idle"

E2EInit ==
    /\ e2_text \in SeqsOf(AlignChars, 1, MaxDocLen)
    /\ e2_size \in 1..MaxDocChunk
    /\ e2_overlap \in 0..(e2_size - 1)
    /\ e2_subject \in {t \in AlignTexts : Cardinality(Occurrences(t, e2_text)) = 1}
    /\ e2_other \in {None} \cup {t \in AlignTexts : Len(t) = 1}
    /\ E2EHeld(E2EChunks)
    /\ e2_result = None
    /\ e2_pc = "run"

\* all_extractions when the windows complete in the given order
E2EMerge(perWindow, order) ==
    Flatten([k \in 1..Len(perWindow) |-> perWindow[order[k]]])

\* the results the run can give, one per order of completion
E2EResults(chunks) ==
    {_dedupe_extractions(
         E2EMerge([i \in 1..Len(chunks) |->
                      AlignAndGlobalize(E2EReport(chunks[i]), chunks[i])],
                  order)) : order \in Orders(Len(chunks))}

E2ERun ==
    /\ e2_pc = "run"
    /\ e2_result' \in E2EResults(E2EChunks)
    /\ e2_pc' = "done"
    /\ UNCHANGED <<e2_text, e2_size, e2_overlap, e2_subject, e2_other>>
    /\ UNCHANGED notE2E

E2ENext == E2ERun

-----------------------------------------------------------------------------
(* services.py: extract (thread pool, as_completed) and aextract (tasks,    *)
(* semaphore, gather).  A window's extractions are kept as the window's     *)
(* index: what matters here is which windows are merged, which fail, how    *)
(* often the model is invoked and how many invocations are in flight.       *)

Windows == 0..(run_n - 1)

NoResult == [success |-> FALSE, extractions |-> <<>>, error |-> "", chunk_index |-> -1]

\* {"success": True, "extractions": parse_and_align_chunk(content, chunk)}
Success(i) == [success |-> TRUE, extractions |-> <<i>>, error |-> "", chunk_index |-> i]

\* {"success": False, "error": ..., "exception": ..., "chunk_index": chunk_index}
Failure(i, error) ==
    [success |-> FALSE, extractions |-> <<>>, error |-> error, chunk_index |-> i]

\* range(max(1, retries))
Attempts(retries) == Max(1, retries)

\* if attempt + 1 < retries: sleep, continue
RetryAgain(attempt, retries) == attempt + 1 < retries

\* (mutant) whatever comes back is taken as text
IsTextual_Coerced(response) == TRUE

\* isinstance(content, str), for a response that came back
IsTextual(response) == response = "text"

\* (mutant) one permit per window
SemaphoreValue_PerWindow(max_concurrency, n) == Max(1, n)

\* asyncio.Semaphore(max_concurrency or max(1, min(10, len(chunks))))
SemaphoreValue(max_concurrency, n) ==
    IF max_concurrency # None /\ max_concurrency[1] # 0
    THEN max_concurrency[1]
    ELSE Max(1, Min(10, n))

\* model invocations in flight
InFlight == Cardinality({i \in Windows : t_pc[i] = "invoking"})

\* worker threads busy with a window
Busy == Cardinality({i \in Windows : t_pc[i] \in {"invoking", "sleeping"}})

\* model invocations made for window i so far
Calls(i) == Len(t_hist[i])

AllDone == \A i \in Windows : t_pc[i] = "done"

\* what the model may answer and whether the prompt can be built: every
\* outcome for up to MaxWindows windows, plain success for the long run
Responses == IF run_n > MaxWindows THEN {"text"} ELSE {"text", "nontext", "exc"}
PromptOutcomes == IF run_n > MaxWindows THEN {TRUE} ELSE BOOLEAN

\* the task of window i returns `result`; in extract its future is then
\* finished, and as_completed's waiter notes it once it is installed
Return(i, result) ==
    /\ t_pc' = [t_pc EXCEPT ![i] = "done"]
    /\ t_result' = [t_result EXCEPT ![i] = result]
    /\ run_firstfail' = IF ~result.success /\ run_firstfail = -1
                        THEN i ELSE run_firstfail
    /\ run_order' = IF run_n > MaxWindows THEN run_order
                    ELSE Append(run_order, i)
    /\ run_late' = IF run_variant = "extract" /\ run_main = "collect"
                   THEN Append(run_late, i) ELSE run_late

\* llm.invoke / llm.ainvoke is called for window i
Invoke(i) ==
    /\ t_pc' = [t_pc EXCEPT ![i] = "invoking"]
    /\ UNCHANGED <<t_result, run_firstfail, run_order, run_late>>

\* (mutant) the failure returned carries the error of the first attempt
Respond_FirstError(i, response) ==
    /\ t_pc[i] = "invoking"
    /\ t_hist' = [t_hist EXCEPT ![i] = Append(@, response)]
    /\ IF response # "exc" /\ IsTextual(response)
       THEN Return(i, Success(i))
       ELSE IF RetryAgain(t_attempt[i], run_retries)
            THEN /\ t_pc' = [t_pc EXCEPT ![i] = "sleeping"]
                 /\ UNCHANGED <<t_result, run_firstfail, run_order, run_late>>
            ELSE Return(i, Failure(i, IF Append(t_hist[i], response)[1] = "exc"
                                      THEN "exc" ELSE "TypeError"))
    /\ UNCHANGED t_attempt

\* the body of the retry loop once the invocation is over: success returns,
\* a failure sleeps and goes on, or returns the failure
Respond(i, response) ==
    /\ t_pc[i] = "invoking"
    /\ t_hist' = [t_hist EXCEPT ![i] = Append(@, response)]
    /\ IF response # "exc" /\ IsTextual(response)
       THEN Return(i, Success(i))
       ELSE IF RetryAgain(t_attempt[i], run_retries)
            THEN /\ t_pc' = [t_pc EXCEPT ![i] = "sleeping"]
                 /\ UNCHANGED <<t_result, run_firstfail, run_order, run_late>>
            ELSE Return(i, Failure(i, IF response = "exc" THEN "exc" ELSE "TypeError"))
    /\ UNCHANGED t_attempt

\* the sleep is over: the next turn of the loop, or the fallback return after
\* the loop
Wake(i) ==
    /\ t_pc[i] = "sleeping"
    /\ IF t_attempt[i] + 1 < Attempts(run_retries)
       THEN /\ Invoke(i)
            /\ t_attempt' = [t_attempt EXCEPT ![i] = @ + 1]
       ELSE /\ Return(i, Failure(i, "internal_error"))
            /\ UNCHANGED t_attempt
    /\ UNCHANGED t_hist

\* (mutant) a failure is recorded but never raised
Consume_NeverRaise(result, all_extractions, errors, error_mode) ==
    IF result.success
    THEN [all_extractions |-> all_extractions \o result.extractions,
          errors |-> errors, raise |-> FALSE]
    ELSE [all_extractions |-> all_extractions,
          errors |-> Append(errors, [chunk_index |-> result.chunk_index,
                                     error |-> result.error]),
          raise |-> FALSE]

\* (mutant) a failure is raised in every mode
Consume_AlwaysRaise(result, all_extractions, errors, error_mode) ==
    IF result.success
    THEN [all_extractions |-> all_extractions \o result.extractions,
          errors |-> errors, raise |-> FALSE]
    ELSE [all_extractions |-> all_extractions,
          errors |-> Append(errors, [chunk_index |-> result.chunk_index,
                                     error |-> result.error]),
          raise |-> TRUE]

\* the body of the loop over the results: extend all_extractions, or append
\* the error entry and, in raise mode, raise
Consume(result, all_extractions, errors, error_mode) ==
    IF result.success
    THEN [all_extractions |-> all_extractions \o result.extractions,
          errors |-> errors, raise |-> FALSE]
    ELSE [all_extractions |-> all_extractions,
          errors |-> Append(errors, [chunk_index |-> result.chunk_index,
                                     error |-> result.error]),
          raise |-> error_mode = "raise"]

\* the main flow takes the result of window i; `raising` is where a raise
\* leads
Take(i, c, raising) ==
    /\ run_all' = c.all_extractions
    /\ run_errors' = c.errors
    /\ run_taken' = Append(run_taken, i)
    /\ IF c.raise
       THEN /\ run_main' = raising
            /\ run_raised' = [chunk_index |-> i, error |-> t_result[i].error]
       ELSE UNCHANGED <<run_main, run_raised>>
    /\ UNCHANGED run_metadata

NoRaise == [chunk_index |-> -1, error |-> ""]

\* metadata={}
NoMetadata == [k \in {} |-> 0]

\* the provider_kwargs of a call: not given, the provider named, a mapping
\* with a key that metadata has too, and the key of the account
ProviderKwargs ==
    {None, [provider |-> "ollama"], [num_chunks |-> 0], [api_key |-> "secret"]}

\* dict.update: the entries of `other` added to the mapping, replacing those
\* with the same key
Update(mapping, other) ==
    [k \in DOMAIN mapping \cup DOMAIN other |->
        IF k \in DOMAIN other THEN other[k] ELSE mapping[k]]

\* the metadata of the document returned after the merge: the five keys of
\* the call, then metadata.update(provider_kwargs) if provider_kwargs is
\* given and not empty, then the key "errors" if errors is not empty
Metadata(provider_kwargs, chunk_size, chunk_overlap, num_chunks, all_extractions, errors) ==
    LET own == [model_name |-> "model", chunk_size |-> chunk_size,
                chunk_overlap |-> chunk_overlap, num_chunks |-> num_chunks,
                num_extractions |-> Len(all_extractions)]
        updated == IF provider_kwargs # None THEN Update(own, provider_kwargs)
                   ELSE own
    IN  IF errors # <<>> THEN Update(updated, [errors |-> errors]) ELSE updated

callVars == <<run_variant, run_len, run_size, run_overlap, run_mode, run_retries,
              run_limit, run_kwargs>>
configVars == <<callVars, run_n>>
taskVars == <<t_pc, t_attempt, t_hist, t_result, run_firstfail, run_order,
              run_late>>
mainVars == <<run_main, run_snapshot, run_early, run_taken, run_all, run_errors,
              run_raised, run_metadata>>

RunIdle ==
    /\ run_variant = "idle" /\ run_len = 0 /\ run_size = 0 /\ run_overlap = 0
    /\ run_n = 0 /\ run_mode = "" /\ run_retries = 0
    /\ run_limit = None /\ run_kwargs = None /\ run_sem = 0
    /\ t_pc = <<>> /\ t_attempt = <<>> /\ t_hist = <<>> /\ t_result = <<>>
    /\ run_firstfail = -1 /\ run_order = <<>> /\ run_late = <<>>
    /\ run_main = "idle" /\ run_snapshot = {} /\ run_early = {} /\ run_taken = <<>>
    /\ run_all = <<>> /\ run_errors = <<>> /\ run_raised = NoRaise
    /\ run_metadata = NoMetadata

\* a call of extract or aextract: with chunk_size 1 and chunk_overlap 0 (one
\* window per character) every text, error_mode, retries and limit for up to
\* MaxWindows windows, and one long run of aextract with max_concurrency left
\* out; and the same calls with a chunk_size of 0 or a chunk_overlap of -1 or 1
RunInit ==
    /\ run_variant \in {"extract", "aextract"}
    /\ \/ /\ run_len \in 0..MaxWindows
          /\ run_size \in {0, 1}
          /\ run_overlap \in {0 - 1, 0, 1}
          /\ run_mode \in {"return", "raise"}
          /\ run_retries \in 0..MaxRetries
          /\ run_len * Attempts(run_retries) <= MaxCalls
          /\ run_limit \in IF run_variant = "extract"
                           THEN {<<k>> : k \in 1..MaxLimit}
                           ELSE {None} \cup {<<k>> : k \in 0..MaxLimit}
          /\ run_kwargs \in ProviderKwargs
       \/ /\ run_variant = "aextract"
          /\ run_len = ManyWindows
          /\ run_size = 1
          /\ run_overlap = 0
          /\ run_mode = "return"
          /\ run_retries = 1
          /\ run_limit = None
          /\ run_kwargs = None
    /\ run_n = 0
    /\ run_sem = 0
    /\ t_pc = <<>> /\ t_attempt = <<>> /\ t_hist = <<>> /\ t_result = <<>>
    /\ run_firstfail = -1 /\ run_order = <<>> /\ run_late = <<>>
    /\ run_main = "call" /\ run_snapshot = {} /\ run_early = {} /\ run_taken = <<>>
    /\ run_all = <<>> /\ run_errors = <<>> /\ run_raised = NoRaise
    /\ run_metadata = NoMetadata

\* the text of the call: run_len characters
RunText == [k \in 1..run_len |-> "a"]

\* the tasks of n windows, none begun
NewTasks(n) ==
    /\ run_n' = n
    /\ t_pc' = [i \in 0..(n - 1) |-> "new"]
    /\ t_attempt' = [i \in 0..(n - 1) |-> 0]
    /\ t_hist' = [i \in 0..(n - 1) |-> <<>>]
    /\ t_result' = [i \in 0..(n - 1) |-> NoResult]

\* chunks = list(chunk_text(text, chunk_size, chunk_overlap)): the guards of
\* chunk_text raise out of the call, or the windows are there
ListChunks ==
    /\ run_main = "call"
    /\ IF ChunkConfigInvalid(run_size, run_overlap)
       THEN /\ run_main' = "raised"
            /\ run_raised' = [chunk_index |-> -1, error |-> "ValueError"]
            /\ UNCHANGED <<run_n, t_pc, t_attempt, t_hist, t_result>>
       ELSE /\ run_main' = "start"
            /\ NewTasks(Len(chunk_text(RunText, run_size, run_overlap, TRUE)))
            /\ UNCHANGED run_raised
    /\ UNCHANGED <<callVars, run_sem, run_firstfail, run_order, run_late,
                   run_snapshot, run_early, run_taken, run_all, run_errors,
                   run_metadata>>

(* extract *)

ExtractChunks ==
    /\ run_variant = "extract"
    /\ ListChunks
    /\ UNCHANGED notRun

\* if not chunks: return AnnotatedDocument(text=text, extractions=[], metadata={})
ExtractEmpty ==
    /\ run_variant = "extract" /\ run_main = "start" /\ run_n = 0
    /\ run_main' = "returned"
    /\ run_metadata' = NoMetadata
    /\ UNCHANGED <<configVars, run_sem, taskVars, run_snapshot, run_early,
                   run_taken, run_all, run_errors, run_raised>>
    /\ UNCHANGED notRun

\* executor.submit for every window, in order
ExtractSubmit ==
    /\ run_variant = "extract" /\ run_main = "start" /\ run_n > 0
    /\ t_pc' = [i \in Windows |-> "queued"]
    /\ run_main' = "submitted"
    /\ UNCHANGED <<configVars, run_sem, t_attempt, t_hist, t_result, run_firstfail, run_order,
                   run_late, run_snapshot, run_early, run_taken, run_all,
                   run_errors, run_raised, run_metadata>>
    /\ UNCHANGED notRun

\* (mutant) a prompt that cannot be built is slept on and tried again like a
\* failed invocation
ExtractStart_Retried(i) ==
    /\ run_variant = "extract"
    /\ t_pc[i] = "queued"
    /\ \A j \in Windows : j < i => t_pc[j] # "queued"
    /\ Busy < run_limit[1]
    /\ \E promptOk \in PromptOutcomes :
          IF promptOk THEN Invoke(i)
          ELSE /\ t_pc' = [t_pc EXCEPT ![i] = "sleeping"]
               /\ UNCHANGED <<t_result, run_firstfail, run_order, run_late>>
    /\ UNCHANGED <<configVars, run_sem, t_attempt, t_hist, mainVars>>
    /\ UNCHANGED notRun

\* a worker thread of the pool takes the oldest queued window and runs
\* _process_chunk up to its first invocation
ExtractStart(i) ==
    /\ run_variant = "extract"
    /\ t_pc[i] = "queued"
    /\ \A j \in Windows : j < i => t_pc[j] # "queued"
    /\ Busy < run_limit[1]
    /\ \E promptOk \in PromptOutcomes :
          IF promptOk THEN Invoke(i) ELSE Return(i, Failure(i, "prompt_error"))
    /\ UNCHANGED <<configVars, run_sem, t_attempt, t_hist, mainVars>>
    /\ UNCHANGED notRun

ExtractRespond(i) ==
    /\ run_variant = "extract"
    /\ \E response \in Responses : Respond(i, response)
    /\ UNCHANGED <<configVars, run_sem, mainVars>>
    /\ UNCHANGED notRun

ExtractWake(i) ==
    /\ run_variant = "extract"
    /\ Wake(i)
    /\ UNCHANGED <<configVars, run_sem, mainVars>>
    /\ UNCHANGED notRun

\* as_completed starts: the futures already finished are set apart, the
\* waiter collects the others as they finish
ExtractCollect ==
    /\ run_variant = "extract" /\ run_main = "submitted"
    /\ run_snapshot' = {i \in Windows : t_pc[i] = "done"}
    /\ run_early' = run_snapshot'
    /\ run_main' = "collect"
    /\ UNCHANGED <<configVars, run_sem, taskVars, run_taken, run_all, run_errors,
                   run_raised, run_metadata>>
    /\ UNCHANGED notRun

\* as_completed yields a future: any of those finished at the start, then
\* the others in the order they finished
ExtractTake(i) ==
    /\ run_variant = "extract" /\ run_main = "collect"
    /\ \/ i \in run_early
       \/ run_early = {} /\ run_late # <<>> /\ i = Head(run_late)
    /\ Take(i, Consume(t_result[i], run_all, run_errors, run_mode), "shutdown")
    /\ run_early' = run_early \ {i}
    /\ run_late' = IF i \in run_early THEN run_late ELSE Tail(run_late)
    /\ UNCHANGED <<configVars, run_sem, t_pc, t_attempt, t_hist, t_result,
                   run_firstfail, run_order, run_snapshot>>
    /\ UNCHANGED notRun

\* (mutant) the exception leaves the with block at once
ExtractShutdown_NoWait ==
    /\ run_variant = "extract" /\ run_main = "shutdown"
    /\ run_main' = "raised"
    /\ UNCHANGED <<configVars, run_sem, taskVars, run_snapshot, run_early,
                   run_taken, run_all, run_errors, run_raised, run_metadata>>
    /\ UNCHANGED notRun

\* the exception leaves the with block: shutdown(wait=True) lets every
\* window finish first
ExtractShutdown ==
    /\ run_variant = "extract" /\ run_main = "shutdown"
    /\ AllDone
    /\ run_main' = "raised"
    /\ UNCHANGED <<configVars, run_sem, taskVars, run_snapshot, run_early,
                   run_taken, run_all, run_errors, run_raised, run_metadata>>
    /\ UNCHANGED notRun

ExtractReturn ==
    /\ run_variant = "extract" /\ run_main = "collect"
    /\ Len(run_taken) = run_n
    /\ run_main' = "returned"
    /\ run_metadata' = Metadata(run_kwargs, run_size, run_overlap, run_n, run_all, run_errors)
    /\ UNCHANGED <<configVars, run_sem, taskVars, run_snapshot, run_early,
                   run_taken, run_all, run_errors, run_raised>>
    /\ UNCHANGED notRun

(* aextract *)

AextractChunks ==
    /\ run_variant = "aextract"
    /\ ListChunks
    /\ UNCHANGED notRun

\* the semaphore and the tasks are created; gather suspends the main flow
AextractCreate ==
    /\ run_variant = "aextract" /\ run_main = "start"
    /\ run_sem' = SemaphoreValue(run_limit, run_n)
    /\ t_pc' = [i \in Windows |-> "queued"]
    /\ run_main' = "gather"
    /\ UNCHANGED <<configVars, t_attempt, t_hist, t_result, run_firstfail, run_order,
                   run_late, run_snapshot, run_early, run_taken, run_all,
                   run_errors, run_raised, run_metadata>>
    /\ UNCHANGED notRun

\* the tasks first run in the order of their creation, each up to its first
\* suspension: the prompt, then the semaphore, then the first invocation
AextractStart(i) ==
    /\ run_variant = "aextract"
    /\ t_pc[i] = "queued"
    /\ \A j \in Windows : j < i => t_pc[j] # "queued"
    /\ \E promptOk \in PromptOutcomes :
          IF ~promptOk
          THEN Return(i, Failure(i, "prompt_error")) /\ UNCHANGED run_sem
          ELSE IF run_sem > 0
               THEN Invoke(i) /\ run_sem' = run_sem - 1
               ELSE /\ t_pc' = [t_pc EXCEPT ![i] = "gate"]
                    /\ UNCHANGED <<t_result, run_firstfail, run_order, run_late, run_sem>>
    /\ UNCHANGED <<configVars, t_attempt, t_hist, mainVars>>
    /\ UNCHANGED notRun

\* a released permit goes to the window that waits longest
AextractAdmit(i) ==
    /\ run_variant = "aextract"
    /\ \A j \in Windows : t_pc[j] # "queued"
    /\ t_pc[i] = "gate"
    /\ \A j \in Windows : j < i => t_pc[j] # "gate"
    /\ run_sem > 0
    /\ Invoke(i)
    /\ run_sem' = run_sem - 1
    /\ UNCHANGED <<configVars, t_attempt, t_hist, mainVars>>
    /\ UNCHANGED notRun

\* (mutant) a return does not give the permit back
AextractRespond_KeepPermit(i) ==
    /\ run_variant = "aextract"
    /\ \A j \in Windows : t_pc[j] # "queued"
    /\ \E response \in Responses : Respond(i, response)
    /\ UNCHANGED run_sem
    /\ UNCHANGED <<configVars, mainVars>>
    /\ UNCHANGED notRun

\* (mutant) the permit is given back after every invocation, also before a
\* sleep
AextractRespond_ReleaseEach(i) ==
    /\ run_variant = "aextract"
    /\ \A j \in Windows : t_pc[j] # "queued"
    /\ \E response \in Responses : Respond(i, response)
    /\ run_sem' = run_sem + 1
    /\ UNCHANGED <<configVars, mainVars>>
    /\ UNCHANGED notRun

\* leaving `async with sem` on a return gives the permit back
AextractRespond(i) ==
    /\ run_variant = "aextract"
    /\ \A j \in Windows : t_pc[j] # "queued"
    /\ \E response \in Responses : Respond(i, response)
    /\ run_sem' = IF t_pc'[i] = "done" THEN run_sem + 1 ELSE run_sem
    /\ UNCHANGED <<configVars, mainVars>>
    /\ UNCHANGED notRun

AextractWake(i) ==
    /\ run_variant = "aextract"
    /\ Wake(i)
    /\ run_sem' = IF t_pc'[i] = "done" THEN run_sem + 1 ELSE run_sem
    /\ UNCHANGED <<configVars, mainVars>>
    /\ UNCHANGED notRun

\* results = await asyncio.gather(*tasks)
AextractGathered ==
    /\ run_variant = "aextract" /\ run_main = "gather"
    /\ AllDone
    /\ run_main' = "collect"
    /\ UNCHANGED <<configVars, run_sem, taskVars, run_snapshot, run_early,
                   run_taken, run_all, run_errors, run_raised, run_metadata>>
    /\ UNCHANGED notRun

\* (mutant) the results are taken in any order
AextractTake_AnyOrder(i) ==
    /\ run_variant = "aextract" /\ run_main = "collect"
    /\ \A k \in 1..Len(run_taken) : run_taken[k] # i
    /\ Take(i, Consume(t_result[i], run_all, run_errors, run_mode), "raised")
    /\ UNCHANGED <<configVars, run_sem, taskVars, run_snapshot, run_early>>
    /\ UNCHANGED notRun

\* for res in results: in the order of the windows
AextractTake(i) ==
    /\ run_variant = "aextract" /\ run_main = "collect"
    /\ i = Len(run_taken)
    /\ Take(i, Consume(t_result[i], run_all, run_errors, run_mode), "raised")
    /\ UNCHANGED <<configVars, run_sem, taskVars, run_snapshot, run_early>>
    /\ UNCHANGED notRun

AextractReturn ==
    /\ run_variant = "aextract" /\ run_main = "collect"
    /\ Len(run_taken) = run_n
    /\ run_main' = "returned"
    /\ run_metadata' = Metadata(run_kwargs, run_size, run_overlap, run_n, run_all, run_errors)
    /\ UNCHANGED <<configVars, run_sem, taskVars, run_snapshot, run_early,
                   run_taken, run_all, run_errors, run_raised>>
    /\ UNCHANGED notRun

RunNext ==
    \/ ExtractChunks
    \/ ExtractEmpty
    \/ ExtractSubmit
    \/ \E i \in Windows : ExtractStart(i)
    \/ \E i \in Windows : ExtractRespond(i)
    \/ \E i \in Windows : ExtractWake(i)
    \/ ExtractCollect
    \/ \E i \in Windows : ExtractTake(i)
    \/ ExtractShutdown
    \/ ExtractReturn
    \/ AextractChunks
    \/ AextractCreate
    \/ \E i \in Windows : AextractStart(i)
    \/ \E i \in Windows : AextractAdmit(i)
    \/ \E i \in Windows : AextractRespond(i)
    \/ \E i \in Windows : AextractWake(i)
    \/ AextractGathered
    \/ \E i \in Windows : AextractTake(i)
    \/ AextractReturn

-----------------------------------------------------------------------------
(* parsing.py: the text of a model response.  A response is a sequence of   *)
(* characters: the JSON punctuation { } [ ] " : , and the backslash, the     *)
(* space, the characters of the window texts, and one character for each     *)
(* run of characters that the code treats as a whole: "F" is a code fence    *)
(* (three backticks), "j" the word json, "7" a digit, "E" the word           *)
(* extractions, "C" extraction_class, "T" extraction_text, "R" attributes,   *)
(* "L" label, "S" span, "X" text, "V" value, "u" the word unknown, "K" the    *)
(* key extraction_class written with capitals.                               *)

\* JSON values: a string, a number, a list of values, or a dict, which is
\* the list of its <<key, value>> pairs in the order of insertion
JStr(chars) == [t |-> "str", v |-> chars]
JNum(digits) == [t |-> "num", v |-> digits]
JList(items) == [t |-> "list", v |-> items]
JDict(pairs) == [t |-> "dict", v |-> pairs]

\* the outcome of a scan: a value and the position after it, or an error
Scanned(val, pos) == [ok |-> TRUE, val |-> val, pos |-> pos]
ScanError == [ok |-> FALSE, val |-> JStr(<<>>), pos |-> 0]

\* json.decoder.WHITESPACE.match(s, i).end(), positions counted from 1
RECURSIVE SkipWs(_, _)
SkipWs(s, i) == IF i <= Len(s) /\ s[i] = " " THEN SkipWs(s, i + 1) ELSE i

\* py_scanstring from the character after the opening quote: up to the
\* closing quote, a backslash escaping a quote or a backslash
RECURSIVE ScanString(_, _, _)
ScanString(s, i, chars) ==
    IF i > Len(s) THEN ScanError
    ELSE IF s[i] = "\"" THEN Scanned(JStr(chars), i + 1)
    ELSE IF s[i] = "\\"
         THEN IF i + 1 <= Len(s) /\ s[i + 1] \in {"\"", "\\"}
              THEN ScanString(s, i + 2, Append(chars, s[i + 1]))
              ELSE ScanError
    ELSE ScanString(s, i + 1, Append(chars, s[i]))

\* NUMBER_RE: the longest run of digits
RECURSIVE ScanNumber(_, _, _)
ScanNumber(s, i, digits) ==
    IF i <= Len(s) /\ s[i] = "7" THEN ScanNumber(s, i + 1, Append(digits, s[i]))
    ELSE Scanned(JNum(digits), i)

\* dict(pairs): a key given again keeps its place and takes the new value
DictSet(pairs, key, val) ==
    IF \E k \in 1..Len(pairs) : pairs[k][1] = key
    THEN [k \in 1..Len(pairs) |->
             IF pairs[k][1] = key THEN <<key, val>> ELSE pairs[k]]
    ELSE Append(pairs, <<key, val>>)

RECURSIVE ScanOnce(_, _)
RECURSIVE ScanItems(_, _, _)
RECURSIVE ScanPairs(_, _, _)

\* JSONArray after an item r: the closing bracket, or a comma and the next
\* item
AfterItem(s, items, r) ==
    IF ~r.ok THEN ScanError
    ELSE IF SkipWs(s, r.pos) > Len(s) THEN ScanError
    ELSE IF s[SkipWs(s, r.pos)] = "]"
         THEN Scanned(JList(Append(items, r.val)), SkipWs(s, r.pos) + 1)
    ELSE IF s[SkipWs(s, r.pos)] = ","
         THEN ScanItems(s, SkipWs(s, SkipWs(s, r.pos) + 1), Append(items, r.val))
    ELSE ScanError

ScanItems(s, i, items) == AfterItem(s, items, ScanOnce(s, i))

\* JSONObject after the value r of `key`
AfterPair(s, pairs, key, r) ==
    IF ~r.ok THEN ScanError
    ELSE IF SkipWs(s, r.pos) > Len(s) THEN ScanError
    ELSE IF s[SkipWs(s, r.pos)] = "}"
         THEN Scanned(JDict(DictSet(pairs, key, r.val)), SkipWs(s, r.pos) + 1)
    ELSE IF s[SkipWs(s, r.pos)] = ","
         THEN ScanPairs(s, SkipWs(s, SkipWs(s, r.pos) + 1),
                        DictSet(pairs, key, r.val))
    ELSE ScanError

\* JSONObject after the key k: the colon, then the value
AfterKey(s, pairs, k) ==
    IF ~k.ok THEN ScanError
    ELSE IF SkipWs(s, k.pos) > Len(s) \/ s[SkipWs(s, k.pos)] # ":" THEN ScanError
    ELSE AfterPair(s, pairs, k.val.v,
                   ScanOnce(s, SkipWs(s, SkipWs(s, k.pos) + 1)))

\* JSONObject at a key: it must open with a quote
ScanPairs(s, i, pairs) ==
    IF i > Len(s) \/ s[i] # "\"" THEN ScanError
    ELSE AfterKey(s, pairs, ScanString(s, i + 1, <<>>))

\* scan_once(s, i): the value that starts at position i
ScanOnce(s, i) ==
    IF i > Len(s) THEN ScanError
    ELSE IF s[i] = "\"" THEN ScanString(s, i + 1, <<>>)
    ELSE IF s[i] = "{"
         THEN IF SkipWs(s, i + 1) <= Len(s) /\ s[SkipWs(s, i + 1)] = "}"
              THEN Scanned(JDict(<<>>), SkipWs(s, i + 1) + 1)
              ELSE ScanPairs(s, SkipWs(s, i + 1), <<>>)
    ELSE IF s[i] = "["
         THEN IF SkipWs(s, i + 1) <= Len(s) /\ s[SkipWs(s, i + 1)] = "]"
              THEN Scanned(JList(<<>>), SkipWs(s, i + 1) + 1)
              ELSE ScanItems(s, SkipWs(s, i + 1), <<>>)
    ELSE IF s[i] = "7" THEN ScanNumber(s, i, <<>>)
    ELSE ScanError

\* JSONDecoder.decode after raw_decode: nothing but whitespace may follow
Decoded(s, r) ==
    IF r.ok /\ SkipWs(s, r.pos) > Len(s) THEN r ELSE ScanError

\* json.loads(s): the value, or an error (ok is false)
json_loads(s) == Decoded(s, ScanOnce(s, SkipWs(s, 1)))

\* the offset of the first code fence at or after `start`, or -1
FindFence(text, start) == Find(text, <<"F">>, start)

\* the start of group 1 of the fence pattern when the opening fence is at
\* `at`: past the fence, the word json if it is there, and whitespace
FenceBodyStart(text, at) ==
    SkipWs(text, IF at + 2 <= Len(text) /\ text[at + 2] = "j"
                 THEN at + 3 ELSE at + 2) - 1

\* (mutant) the pattern is greedy: the text between the first fence and the
\* last one
_strip_code_fence_Greedy(text) ==
    IF FindFence(text, 0) = 0 - 1
       \/ FindFence(text, FindFence(text, 0) + 1) = 0 - 1
    THEN text
    ELSE LET last == CHOOSE at \in 0..Len(text) :
                         /\ FindFence(text, at) = at
                         /\ FindFence(text, at + 1) = 0 - 1
         IN  Strip(Slice(text,
                         Min(FenceBodyStart(text, FindFence(text, 0)), last),
                         last))

\* _strip_code_fence: the stripped text between the first fence and the next
\* one, or the text itself when it has no such pair
_strip_code_fence(text) ==
    IF FindFence(text, 0) = 0 - 1
       \/ FindFence(text, FindFence(text, 0) + 1) = 0 - 1
    THEN text
    ELSE Strip(Slice(text,
                     Min(FenceBodyStart(text, FindFence(text, 0)),
                         FindFence(text, FindFence(text, 0) + 1)),
                     FindFence(text, FindFence(text, 0) + 1)))

\* the closing bracket of `opening`
ClosingOf(opening) == IF opening = "{" THEN "}" ELSE "]"

\* the inner loop of _find_json_candidates from offset j: the offset of the
\* character at which depth returns to 0 outside a string, or -1 if the text
\* ends first
RECURSIVE ScanBalanced(_, _, _, _, _, _)
\* (mutant) brackets count inside strings too
RECURSIVE ScanBalanced_InStrings(_, _, _, _, _, _)
ScanBalanced_InStrings(text, opening, j, depth, in_string, esc) ==
    IF j >= Len(text) THEN 0 - 1
    ELSE LET c == text[j + 1]
             depth2 == IF c = opening THEN depth + 1
                       ELSE IF c = ClosingOf(opening) THEN depth - 1
                       ELSE depth
         IN  IF depth2 = 0 THEN j
             ELSE ScanBalanced_InStrings(text, opening, j + 1, depth2, FALSE, FALSE)

ScanBalanced(text, opening, j, depth, in_string, esc) ==
    IF j >= Len(text) THEN 0 - 1
    ELSE LET c == text[j + 1]
             in_string2 == IF c = "\"" /\ ~esc THEN ~in_string ELSE in_string
             esc2 == c = "\\" /\ ~esc
             depth2 == IF in_string2 THEN depth
                       ELSE IF c = opening THEN depth + 1
                       ELSE IF c = ClosingOf(opening) THEN depth - 1
                       ELSE depth
         IN  IF ~in_string2 /\ depth2 = 0 THEN j
             ELSE ScanBalanced(text, opening, j + 1, depth2, in_string2, esc2)

\* the outer loop of _find_json_candidates from offset i: the candidates as
\* <<start, end>> offsets, text[start:end] being the candidate
RECURSIVE CandidatesFrom(_, _)
\* (mutant) after a candidate the scan goes on one character after its start
CandidateAt_Nested(text, i, close) ==
    IF close = 0 - 1 THEN CandidatesFrom(text, i + 1)
    ELSE <<<<i, close + 1>>>> \o CandidatesFrom(text, i + 1)

\* the turn of the outer loop at an opening bracket at i, `close` being what
\* the inner loop found
CandidateAt(text, i, close) ==
    IF close = 0 - 1 THEN CandidatesFrom(text, i + 1)
    ELSE <<<<i, close + 1>>>> \o CandidatesFrom(text, close + 1)

CandidatesFrom(text, i) ==
    IF i >= Len(text) THEN <<>>
    ELSE IF text[i + 1] \notin {"{", "["} THEN CandidatesFrom(text, i + 1)
    ELSE CandidateAt(text, i,
                     ScanBalanced(text, text[i + 1], i, 0, FALSE, FALSE))

\* where the candidates of _find_json_candidates(text) are in the text
CandidateSpans(text) == CandidatesFrom(text, 0)

\* _find_json_candidates(text)
_find_json_candidates(text) ==
    [k \in 1..Len(CandidateSpans(text)) |->
        Slice(text, CandidateSpans(text)[k][1], CandidateSpans(text)[k][2])]

\* key in d, and d[key], for a dict d
HasKey(d, key) == \E k \in 1..Len(d.v) : d.v[k][1] = key
GetKey(d, key) == d.v[CHOOSE k \in 1..Len(d.v) : d.v[k][1] = key][2]

\* sep.join(parts)
RECURSIVE JoinWith(_, _)
JoinWith(parts, sep) ==
    IF parts = <<>> THEN <<>>
    ELSE IF Len(parts) = 1 THEN parts[1]
    ELSE parts[1] \o sep \o JoinWith(Tail(parts), sep)

\* the characters of a string with each `special` one behind a backslash
RECURSIVE Escaped(_, _)
Escaped(chars, special) ==
    IF chars = <<>> THEN <<>>
    ELSE (IF Head(chars) \in special THEN <<"\\", Head(chars)>>
          ELSE <<Head(chars)>>)
         \o Escaped(Tail(chars), special)

\* repr(x) of a value: strings in single quotes, a backslash doubled, the
\* zero-width character (not printable) as a backslash and "z" for u200b
RECURSIVE PyRepr(_)
PyRepr(x) ==
    IF x.t = "str" THEN <<"'">> \o Escaped(x.v, {"\\"} \cup ZeroWidth) \o <<"'">>
    ELSE IF x.t = "num" THEN x.v
    ELSE IF x.t = "list"
         THEN <<"[">>
              \o JoinWith([k \in 1..Len(x.v) |-> PyRepr(x.v[k])], <<",", " ">>)
              \o <<"]">>
    ELSE <<"{">>
         \o JoinWith([k \in 1..Len(x.v) |->
                         PyRepr(JStr(x.v[k][1])) \o <<":", " ">>
                         \o PyRepr(x.v[k][2])],
                     <<",", " ">>)
         \o <<"}">>

\* bool(x): a number of this alphabet is never zero
Truthy(x) == x.t = "num" \/ x.v # <<>>

\* str(x)
PyStr(x) == IF x.t = "str" THEN x.v ELSE PyRepr(x)

\* json.dumps(x, ensure_ascii=False)
RECURSIVE json_dumps(_)
json_dumps(x) ==
    IF x.t = "str" THEN <<"\"">> \o Escaped(x.v, {"\\", "\""}) \o <<"\"">>
    ELSE IF x.t = "num" THEN x.v
    ELSE IF x.t = "list"
         THEN <<"[">>
              \o JoinWith([k \in 1..Len(x.v) |-> json_dumps(x.v[k])], <<",", " ">>)
              \o <<"]">>
    ELSE <<"{">>
         \o JoinWith([k \in 1..Len(x.v) |->
                         json_dumps(JStr(x.v[k][1])) \o <<":", " ">>
                         \o json_dumps(x.v[k][2])],
                     <<",", " ">>)
         \o <<"}">>

\* class_synonyms, text_synonyms, attr_synonyms: "C" extraction_class and "L"
\* label; "T" extraction_text, "S" span, "X" text and "V" value;
\* "R" attributes
class_synonyms == {<<"C">>, <<"L">>}
text_synonyms == {<<"T">>, <<"S">>, <<"X">>, <<"V">>}
attr_synonyms == {<<"R">>}

\* (mutant) the keys are compared with the synonyms as they are written
SynonymKey_Exact(item, synonyms) ==
    IF \A k \in 1..Len(item.v) : item.v[k][1] \notin synonyms THEN None
    ELSE item.v[CHOOSE k \in 1..Len(item.v) :
                    /\ item.v[k][1] \in synonyms
                    /\ \A j \in 1..(k - 1) : item.v[j][1] \notin synonyms][1]

\* next((map_keys[k] for k in map_keys if k in synonyms), None): of the
\* first key whose lower case is a synonym, the last key of the dict that has
\* that lower case; None if there is none
SynonymKey(item, synonyms) ==
    IF \A k \in 1..Len(item.v) : Lower(item.v[k][1]) \notin synonyms THEN None
    ELSE LET first == CHOOSE k \in 1..Len(item.v) :
                          /\ Lower(item.v[k][1]) \in synonyms
                          /\ \A j \in 1..(k - 1) : Lower(item.v[j][1]) \notin synonyms
             last == CHOOSE k \in 1..Len(item.v) :
                         /\ Lower(item.v[k][1]) = Lower(item.v[first][1])
                         /\ \A j \in (k + 1)..Len(item.v) :
                               Lower(item.v[j][1]) # Lower(item.v[first][1])
         IN  item.v[last][1]

\* one normalized record
Record(cls, text, attributes) ==
    [extraction_class |-> Strip(cls), extraction_text |-> Strip(text),
     attributes |-> attributes]

\* (mutant) the attributes are wrapped as {"value": attrs} whatever they are
AttributesOf_Wrap(item, attr_key) ==
    IF attr_key = None \/ ~HasKey(item, attr_key) THEN JDict(<<>>)
    ELSE JDict(<<<<<<"V">>, GetKey(item, attr_key)>>>>)

\* item.get(attr_key, {}), wrapped as {"value": attrs} if it is no dict;
\* attr_key being a key of the item or None
AttributesOf(item, attr_key) ==
    IF attr_key = None \/ ~HasKey(item, attr_key) THEN JDict(<<>>)
    ELSE IF GetKey(item, attr_key).t = "dict" THEN GetKey(item, attr_key)
    ELSE JDict(<<<<<<"V">>, GetKey(item, attr_key)>>>>)

\* the first ":" of a string, as an offset, or -1
FirstSeparator(s) == Find(s, <<":">>, 0)

\* the key-value pattern matches the stripped string s: a class before the
\* first separator, a text after it
KeyValueMatch(s) ==
    /\ FirstSeparator(s) >= 1
    /\ Strip(Slice(s, FirstSeparator(s) + 1, Len(s))) # <<>>

RECURSIVE transform_llm_extractions(_)
RECURSIVE TransformItems(_)

\* a string item that is no JSON text, or a JSON number, for which the code
\* goes round (json.loads gives the number, its str() is the string again)
\* until the recursion limit sends it here: the key-value pattern, or
\* "unknown"
TransformPlain(s) ==
    IF KeyValueMatch(s)
    THEN <<Record(Slice(s, 0, FirstSeparator(s)),
                  Slice(s, FirstSeparator(s) + 1, Len(s)), JDict(<<>>))>>
    ELSE <<Record(<<"u">>, s, JDict(<<>>))>>

\* a string item, stripped, `parsed` being what json.loads makes of it
TransformString(s, parsed) ==
    IF parsed.ok /\ parsed.val.t # "num"
    THEN transform_llm_extractions(parsed.val)
    ELSE TransformPlain(s)

\* a dict item
TransformDict(item) ==
    IF HasKey(item, <<"E">>) /\ GetKey(item, <<"E">>).t = "list"
    THEN transform_llm_extractions(GetKey(item, <<"E">>))
    ELSE IF SynonymKey(item, class_synonyms) # None
            /\ SynonymKey(item, text_synonyms) # None
    THEN <<Record(PyStr(GetKey(item, SynonymKey(item, class_synonyms))),
                  PyStr(GetKey(item, SynonymKey(item, text_synonyms))),
                  AttributesOf(item, SynonymKey(item, attr_synonyms)))>>
    ELSE IF Len(item.v) = 1
    THEN <<Record(item.v[1][1], PyStr(item.v[1][2]), JDict(<<>>))>>
    ELSE IF HasKey(item, <<"L">>) /\ (HasKey(item, <<"S">>) \/ HasKey(item, <<"X">>))
    THEN <<Record(PyStr(GetKey(item, <<"L">>)),
                  IF HasKey(item, <<"S">>) /\ Truthy(GetKey(item, <<"S">>))
                  THEN PyStr(GetKey(item, <<"S">>))
                  ELSE IF HasKey(item, <<"X">>) THEN PyStr(GetKey(item, <<"X">>))
                  ELSE <<"N", "o", "n", "e">>,
                  JDict(<<>>))>>
    ELSE <<Record(<<"u">>, json_dumps(item), JDict(<<>>))>>

\* the body of `for item in items`
TransformItem(item) ==
    IF item.t = "list" THEN transform_llm_extractions(item)
    ELSE IF item.t = "dict" THEN TransformDict(item)
    ELSE IF item.t = "str" THEN TransformString(Strip(item.v), json_loads(Strip(item.v)))
    ELSE <<Record(<<"u">>, PyStr(item), JDict(<<>>))>>

TransformItems(items) ==
    IF items = <<>> THEN <<>>
    ELSE TransformItem(Head(items)) \o TransformItems(Tail(items))

\* transform_llm_extractions(raw_extractions), raw_extractions not None
transform_llm_extractions(raw_extractions) ==
    IF raw_extractions.t = "dict" /\ HasKey(raw_extractions, <<"E">>)
    THEN LET inner == GetKey(raw_extractions, <<"E">>)
         IN  IF inner.t \in {"str", "dict"} THEN TransformItems(<<inner>>)
             ELSE IF inner.t = "list" THEN TransformItems(inner.v)
             ELSE TransformItems(<<JStr(PyStr(inner))>>)
    ELSE IF raw_extractions.t \in {"str", "dict"}
    THEN TransformItems(<<raw_extractions>>)
    ELSE IF raw_extractions.t = "list" THEN TransformItems(raw_extractions.v)
    ELSE TransformItems(<<JStr(PyStr(raw_extractions))>>)

-----------------------------------------------------------------------------
(* parsing.py, parse_and_align_chunk, and services.py, _process_chunk: one  *)
(* window from its prompt to the main flow taking its result.               *)

\* raw_extractions: None, or the value taken from the response
NoRaw == [found |-> FALSE, val |-> JList(<<>>)]
Raw(val) == [found |-> TRUE, val |-> val]

\* isinstance(parsed, dict) and "extractions" in parsed, or
\* isinstance(parsed, list)
Usable(parsed) ==
    (parsed.t = "dict" /\ HasKey(parsed, <<"E">>)) \/ parsed.t = "list"

\* what raw_extractions is set to from a usable value
RawOf(parsed) ==
    IF parsed.t = "dict" THEN Raw(GetKey(parsed, <<"E">>)) ELSE Raw(parsed)

\* `for cand in candidates`: the first candidate that parses to a usable
\* value
RECURSIVE FromCandidates(_)
FromCandidate(candidates, parsed) ==
    IF parsed.ok /\ Usable(parsed.val) THEN RawOf(parsed.val)
    ELSE FromCandidates(Tail(candidates))

FromCandidates(candidates) ==
    IF candidates = <<>> THEN NoRaw
    ELSE FromCandidate(candidates, json_loads(Head(candidates)))

\* raw_extractions after the try/except around json.loads(content), parsed
\* being what json.loads makes of the content
RawExtractions(content, parsed) ==
    IF parsed.ok
    THEN IF Usable(parsed.val) THEN RawOf(parsed.val) ELSE NoRaw
    ELSE FromCandidates(_find_json_candidates(content))

\* Extraction(**item) for each normalized record, skipping the ones the
\* validators reject: class and text are stripped and must be non-empty
RECURSIVE ValidatedItems(_)
ValidatedItems(transformed) ==
    IF transformed = <<>> THEN <<>>
    ELSE (IF Strip(Head(transformed).extraction_class) = <<>>
             \/ Strip(Head(transformed).extraction_text) = <<>>
          THEN <<>>
          ELSE <<Extraction(Strip(Head(transformed).extraction_class),
                            Strip(Head(transformed).extraction_text),
                            Head(transformed).attributes)>>)
         \o ValidatedItems(Tail(transformed))

\* parse_and_align_chunk from raw_extractions on
FromRaw(raw_extractions, chunk) ==
    IF ~raw_extractions.found THEN <<>>
    ELSE Globalize(
             align_extractions(
                 ValidatedItems(transform_llm_extractions(raw_extractions.val)),
                 chunk.text),
             chunk)

\* parse_and_align_chunk(llm_output_content, chunk)
ParseStripped(content, chunk) ==
    FromRaw(RawExtractions(content, json_loads(content)), chunk)

parse_and_align_chunk(llm_output_content, chunk) ==
    ParseStripped(_strip_code_fence(llm_output_content), chunk)

\* {"success": True, "extractions": parse_and_align_chunk(content, chunk)}
ChunkSuccess(extractions) ==
    [success |-> TRUE, extractions |-> extractions, error |-> "", chunk_index |-> 0]

\* (mutant) a response without usable JSON fails the attempt
AttemptFails_NoJson(response, content) ==
    \/ response = "exc"
    \/ ~IsTextual(response)
    \/ ~RawExtractions(_strip_code_fence(content),
                       json_loads(_strip_code_fence(content))).found

\* the try block of the retry loop raises: the invocation raised, or the
\* content is no str; parse_and_align_chunk raises nothing on a str
AttemptFails(response, content) == response = "exc" \/ ~IsTextual(response)

(* The responses a window is given.  Every string inside them is made of    *)
(* the characters of the window texts, so that what the aligner is given    *)
(* is text it can be given.                                                  *)

\* the class and the text of the records the model reports
RecordPairs ==
    {<<"a">>} \X {<<"a">>, <<"I">>, <<"a", "a">>, <<"I", "a", "a">>}

\* {"extraction_class": cls, "extraction_text": text}
RecordValue(pair) ==
    JDict(<<<<<<"C">>, JStr(pair[1])>>, <<<<"T">>, JStr(pair[2])>>>>)

\* the JSON text of one record, of a list of records, and of
\* {"extractions": [...]}
RecordText(pair) == json_dumps(RecordValue(pair))
ListValue(pairs) == JList([k \in 1..Len(pairs) |-> RecordValue(pairs[k])])
ListText(pairs) == json_dumps(ListValue(pairs))
DictText(pairs) == json_dumps(JDict(<<<<<<"E">>, ListValue(pairs)>>>>))

\* the proper prefixes of a text
Prefixes(s) == {SubSeq(s, 1, n) : n \in 0..(Len(s) - 1)}

\* a text in a code fence, with or without the tag
Fenced(s) == {<<"F">> \o s \o <<"F">>, <<"F", "j", " ">> \o s \o <<"F">>}

\* responses that are what the prompt asks for
Answers ==
    {ListText(pairs) : pairs \in SeqsOf(RecordPairs, 0, MaxRecords)}
    \cup {DictText(pairs) : pairs \in SeqsOf(RecordPairs, 0, MaxRecords)}

\* responses whose whole content is one record
SingleDicts == {RecordText(pair) : pair \in RecordPairs}

\* prose, with and without a colon, and the empty response
Prose == {<<>>, <<"a", " ", "a">>, <<"a", ":", " ", "a">>}

\* a response cut off, one in a fence, one in a fence cut off, and one
\* with prose around it
Broken ==
    UNION {Prefixes(s) : s \in {ListText(<<<<<<"a">>, <<"a">>>>>>),
                                DictText(<<<<<<"a">>, <<"I">>>>>>)}}

Surrounded ==
    UNION {Fenced(s) \cup {<<"F">> \o s, <<"a", " ">> \o s \o <<" ", "a">>} :
           s \in {ListText(<<<<<<"a">>, <<"a">>>>>>),
                  DictText(<<<<<<"a">>, <<"I">>>>>>),
                  RecordText(<<<<"a">>, <<"a">>>>),
                  <<"a">>}}

\* JSON values that are no list and no record
Scalars == {<<"7">>, <<"\"", "a", ":", "a", "\"">>, <<"{", "}">>}

\* lists of one record in the other shapes the normalizer knows: with
\* attributes that are a mapping, with attributes that are none, a number
\* for the text, label and span for the keys, a single key, the class key
\* in capitals, a class key alone, a label without a text, two keys that
\* are no synonyms, a string, a string that holds a number, a list, a dict
\* with a list under "extractions", a string that holds a record
Shaped ==
    {json_dumps(JList(<<item>>)) :
        item \in {JDict(<<<<<<"C">>, JStr(<<"a">>)>>, <<<<"T">>, JStr(<<"a">>)>>,
                          <<<<"R">>, JDict(<<<<<<"a">>, JStr(<<"a">>)>>>>)>>>>),
                  JDict(<<<<<<"C">>, JStr(<<"a">>)>>, <<<<"T">>, JStr(<<"a">>)>>,
                          <<<<"R">>, JStr(<<"a">>)>>>>),
                  JDict(<<<<<<"C">>, JStr(<<"a">>)>>, <<<<"T">>, JNum(<<"7">>)>>>>),
                  JDict(<<<<<<"L">>, JStr(<<"a">>)>>, <<<<"S">>, JStr(<<" ", "a">>)>>>>),
                  JDict(<<<<<<"a">>, JStr(<<"a">>)>>>>),
                  JDict(<<<<<<"K">>, JStr(<<"a">>)>>, <<<<"T">>, JStr(<<"a">>)>>>>),
                  JDict(<<<<<<"C">>, JStr(<<"a">>)>>>>),
                  JDict(<<<<<<"L">>, JStr(<<"a">>)>>, <<<<"a">>, JStr(<<"a">>)>>>>),
                  JDict(<<<<<<"a">>, JStr(<<"a">>)>>, <<<<"I">>, JStr(<<"a">>)>>>>),
                  JStr(<<"a", ":", "a">>),
                  JStr(<<"7">>),
                  JList(<<JDict(<<<<<<"C">>, JStr(<<"a">>)>>,
                                  <<<<"T">>, JStr(<<"a">>)>>>>)>>),
                  JDict(<<<<<<"E">>,
                          JList(<<JDict(<<<<<<"C">>, JStr(<<"a">>)>>,
                                          <<<<"T">>, JStr(<<"a">>)>>>>)>>)>>>>),
                  JStr(json_dumps(JDict(<<<<<<"C">>, JStr(<<"a">>)>>,
                                          <<<<"T">>, JStr(<<"a">>)>>>>)))}}

\* responses with two fenced blocks and prose around them, the second block
\* holding a list, and one with a list in the prose before its only block
TwoBlocks ==
    {<<"a", " ", "F">> \o first \o <<"F", " ", "F", "j", " ">>
        \o ListText(<<<<<<"a">>, <<"I">>>>>>) \o <<"F", " ", "a">> :
        first \in {<<"[", "]">>, <<"a">>, <<"j", " ", "{", "}">>,
                   ListText(<<<<<<"a">>, <<"a">>>>>>)}}
    \cup {ListText(<<<<<<"a">>, <<"I">>>>>>) \o <<" ", "F", "a", "F">>}

\* JSON values with brackets, a quote and a backslash inside their strings
Quoting ==
    {JDict(<<<<<<"E">>, JList(<<>>)>>, <<<<"a">>, JStr(<<"}">>)>>>>),
     JDict(<<<<<<"E">>, JList(<<>>)>>, <<<<"a">>, JStr(<<"{", "\"">>)>>>>),
     JList(<<JDict(<<<<<<"C">>, JStr(<<"a">>)>>, <<<<"T">>, JStr(<<"a">>)>>,
                     <<<<"R">>, JDict(<<<<<<"a">>, JStr(<<"]">>)>>>>)>>>>)>>),
     JList(<<JDict(<<<<<<"C">>, JStr(<<"a">>)>>, <<<<"T">>, JStr(<<"a">>)>>,
                     <<<<"R">>, JDict(<<<<<<"a">>, JStr(<<"[", "\\">>)>>>>)>>>>)>>)}

\* prose without brackets, then one of these values, then more text
Embedded ==
    {<<"a", "\"", " ">> \o json_dumps(value) \o trailing :
        value \in Quoting,
        trailing \in {<<>>, <<" ", "]", "}">>, <<"a", "[", "{">>}}

\* prose, then an object without the key "extractions" that holds a list of
\* one record, alone and with a list after it
Wrapped ==
    {<<"a", " ">>
        \o json_dumps(JDict(<<<<<<"a">>, ListValue(<<<<<<"a">>, <<"a">>>>>>)>>>>))
        \o after :
        after \in {<<>>, <<" ">> \o ListText(<<<<<<"a">>, <<"I">>>>>>)}}

Contents ==
    Answers \cup SingleDicts \cup Prose \cup Broken \cup Surrounded \cup Scalars
    \cup Shaped \cup TwoBlocks \cup Embedded \cup Wrapped

\* the documents the windows are cut from
WindowDocs == {<<"a", " ", "a", "I", "a">>, <<"a", "I", "a", " ", "a">>}

\* chunks = list(chunk_text(text, chunk_size, chunk_overlap)) for a document,
\* with windows of three characters that overlap by one
ChunksOf(doc) ==
    LET chunks == chunk_text(doc, 3, 1, TRUE)
    IN  {chunks[i] : i \in 1..Len(chunks)}

\* the windows: of each document the one at its start and the one further on
WindowChunks == UNION {ChunksOf(doc) : doc \in WindowDocs}

\* the document a window was cut from
DocOf(chunk) == CHOOSE doc \in WindowDocs : chunk \in ChunksOf(doc)

WindowIdle ==
    /\ w_chunk = None /\ w_content = None /\ w_mode = "idle" /\ w_retries = 0
    /\ w_attempt = 0 /\ w_calls = 0 /\ w_response = "none" /\ w_pc = "idle"
    /\ w_text = None /\ w_raw = NoRaw /\ w_result = NoResult
    /\ w_all = <<>> /\ w_errors = <<>>

WindowInit ==
    /\ w_chunk \in WindowChunks
    /\ w_content \in Contents
    /\ w_mode \in {"return", "raise"}
    /\ w_retries \in 0..MaxRetries
    /\ w_attempt = 0 /\ w_calls = 0 /\ w_response = "none" /\ w_pc = "prompt"
    /\ w_text = None /\ w_raw = NoRaw /\ w_result = NoResult
    /\ w_all = <<>> /\ w_errors = <<>>

\* format_prompt(prompt_description, examples, chunk.text), which succeeds
\* or raises
WindowPrompt ==
    /\ w_pc = "prompt"
    /\ \E built \in BOOLEAN :
          IF built
          THEN w_pc' = "invoke" /\ UNCHANGED w_result
          ELSE w_pc' = "done" /\ w_result' = Failure(0, "prompt_error")
    /\ UNCHANGED <<w_chunk, w_content, w_mode, w_retries, w_attempt, w_calls,
                   w_response, w_text, w_raw, w_all, w_errors>>
    /\ UNCHANGED notWindow

\* one turn of the retry loop up to the call of parse_and_align_chunk:
\* llm.invoke, the check of the content, and the except branch with its
\* sleep
WindowInvoke ==
    /\ w_pc = "invoke"
    /\ \E response \in {"text", "nontext", "exc"} :
          /\ w_response' = response
          /\ IF AttemptFails(response, w_content)
             THEN IF RetryAgain(w_attempt, w_retries)
                  THEN /\ w_attempt' = w_attempt + 1
                       /\ UNCHANGED <<w_pc, w_result>>
                  ELSE /\ w_pc' = "done"
                       /\ w_result' = Failure(0, IF response = "exc" THEN "exc"
                                                 ELSE "TypeError")
                       /\ UNCHANGED w_attempt
             ELSE /\ w_pc' = "strip"
                  /\ UNCHANGED <<w_attempt, w_result>>
    /\ w_calls' = w_calls + 1
    /\ UNCHANGED <<w_chunk, w_content, w_mode, w_retries, w_text, w_raw,
                   w_all, w_errors>>
    /\ UNCHANGED notWindow

\* content = _strip_code_fence(llm_output_content or "")
WindowStrip ==
    /\ w_pc = "strip"
    /\ w_text' = _strip_code_fence(w_content)
    /\ w_pc' = "load"
    /\ UNCHANGED <<w_chunk, w_content, w_mode, w_retries, w_attempt, w_calls,
                   w_response, w_raw, w_result, w_all, w_errors>>
    /\ UNCHANGED notWindow

\* the try around json.loads(content), parsed being what it gives
Loaded(parsed) ==
    IF parsed.ok
    THEN /\ w_raw' = RawExtractions(w_text, parsed)
         /\ w_pc' = "build"
    ELSE /\ w_raw' = NoRaw
         /\ w_pc' = "scan"

WindowLoad ==
    /\ w_pc = "load"
    /\ Loaded(json_loads(w_text))
    /\ UNCHANGED <<w_chunk, w_content, w_mode, w_retries, w_attempt, w_calls,
                   w_response, w_text, w_result, w_all, w_errors>>
    /\ UNCHANGED notWindow

\* the except branch: the scan for candidates and the loop over them
WindowScan ==
    /\ w_pc = "scan"
    /\ w_raw' = FromCandidates(_find_json_candidates(w_text))
    /\ w_pc' = "build"
    /\ UNCHANGED <<w_chunk, w_content, w_mode, w_retries, w_attempt, w_calls,
                   w_response, w_text, w_result, w_all, w_errors>>
    /\ UNCHANGED notWindow

\* the rest of parse_and_align_chunk and the return of _process_chunk
WindowBuild ==
    /\ w_pc = "build"
    /\ w_result' = ChunkSuccess(FromRaw(w_raw, w_chunk))
    /\ w_pc' = "done"
    /\ UNCHANGED <<w_chunk, w_content, w_mode, w_retries, w_attempt, w_calls,
                   w_response, w_text, w_raw, w_all, w_errors>>
    /\ UNCHANGED notWindow

\* the main flow takes the window's result: the body of its loop over the
\* results
Taken(c) ==
    /\ w_all' = c.all_extractions
    /\ w_errors' = c.errors
    /\ w_pc' = IF c.raise THEN "raised" ELSE "returned"

WindowTake ==
    /\ w_pc = "done"
    /\ Taken(Consume(w_result, <<>>, <<>>, w_mode))
    /\ UNCHANGED <<w_chunk, w_content, w_mode, w_retries, w_attempt, w_calls,
                   w_response, w_text, w_raw, w_result>>
    /\ UNCHANGED notWindow

WindowNext ==
    \/ WindowPrompt
    \/ WindowInvoke
    \/ WindowStrip
    \/ WindowLoad
    \/ WindowScan
    \/ WindowBuild
    \/ WindowTake

-----------------------------------------------------------------------------
(* visualization.py: the extractions of one document as visualize writes    *)
(* them into the report.                                                     *)

\* _serialize_extraction: the dict of an extraction, with the key
\* "char_interval" if the extraction has an interval (None: no such key)
_serialize_extraction(ext) ==
    [extraction_class |-> ext.extraction_class,
     extraction_text |-> ext.extraction_text,
     attributes |-> ext.attributes,
     char_interval |-> ext.char_interval]

\* the test that skips an extraction: s < 0 or e < 0 or s >= e or
\* s > len(doc.text) or e < 0
OutOfBounds(s, e, text) == s < 0 \/ e < 0 \/ s >= e \/ s > Len(text) \/ e < 0

\* max(0, min(len(doc.text), x))
Clamp(x, text) == Max(0, Min(Len(text), x))

\* one turn of the loops over doc.extractions: serial_extractions after the
\* extraction ext
Serialized(serial_extractions, ext, text) ==
    IF ext.char_interval = None THEN serial_extractions
    ELSE LET ser == _serialize_extraction(ext)
         IN  IF OutOfBounds(ser.char_interval[1], ser.char_interval[2], text)
             THEN serial_extractions
             ELSE Append(serial_extractions,
                         [ser EXCEPT !.char_interval =
                             <<Clamp(@[1], text), Clamp(@[2], text)>>])

\* the intervals a CharInterval can hold: 0 <= start < end
VizIntervals ==
    {None} \cup {iv \in (0..MaxVizEnd) \X (1..MaxVizEnd) : iv[1] < iv[2]}

VizExtractions ==
    {[extraction_class |-> "c", extraction_text |-> <<"a">>, attributes |-> 0,
      char_interval |-> iv] : iv \in VizIntervals}

VizIdle ==
    /\ viz_text = <<>> /\ viz_extractions = <<>> /\ viz_i = 0
    /\ viz_out = <<>> /\ viz_pc = "idle"

\* an AnnotatedDocument: any text, any extractions with any intervals
VizInit ==
    /\ viz_text \in SeqsOf({"a"}, 0, MaxVizText)
    /\ viz_extractions \in SeqsOf(VizExtractions, 0, MaxVizExts)
    /\ viz_i = 0
    /\ viz_out = <<>>
    /\ viz_pc = "loop"

\* the next extraction of the document
VizSerialize ==
    /\ viz_pc = "loop"
    /\ viz_i < Len(viz_extractions)
    /\ viz_out' = Serialized(viz_out, viz_extractions[viz_i + 1], viz_text)
    /\ viz_i' = viz_i + 1
    /\ UNCHANGED <<viz_text, viz_extractions, viz_pc>>
    /\ UNCHANGED notViz

\* organized[doc_id][model_name] = {"text": ..., "extractions": ...}
VizEmit ==
    /\ viz_pc = "loop"
    /\ viz_i = Len(viz_extractions)
    /\ viz_pc' = "done"
    /\ UNCHANGED <<viz_text, viz_extractions, viz_i, viz_out>>
    /\ UNCHANGED notViz

VizNext == VizSerialize \/ VizEmit

-----------------------------------------------------------------------------
(* Specifications *)

\* the chunker on every text and configuration within the bounds
InitChunk ==
    ChunkInit /\ AlignIdle /\ DedupeIdle /\ E2EIdle /\ RunIdle /\ WindowIdle /\ VizIdle
SpecChunk == InitChunk /\ [][ChunkNext]_vars

\* the aligner on every window and extraction list within the bounds
InitAlign ==
    AlignInit /\ ChunkIdle /\ DedupeIdle /\ E2EIdle /\ RunIdle /\ WindowIdle /\ VizIdle
SpecAlign == InitAlign /\ [][AlignNext]_vars

\* the deduplicator on every list within the bounds
InitDedupe ==
    DedupeInit /\ ChunkIdle /\ AlignIdle /\ E2EIdle /\ RunIdle /\ WindowIdle /\ VizIdle
SpecDedupe == InitDedupe /\ [][DedupeNext]_vars

\* every document, configuration and reported text within the bounds, end to
\* end
InitE2E ==
    E2EInit /\ ChunkIdle /\ AlignIdle /\ DedupeIdle /\ RunIdle /\ WindowIdle /\ VizIdle
SpecE2E == InitE2E /\ [][E2ENext]_vars

\* every call of extract and aextract within the bounds, under every
\* interleaving of the windows' tasks and every outcome of their invocations
InitRun ==
    RunInit /\ ChunkIdle /\ AlignIdle /\ DedupeIdle /\ E2EIdle /\ WindowIdle /\ VizIdle
SpecRun == InitRun /\ [][RunNext]_vars

\* the calls of up to MaxWindows windows when every model invocation comes
\* back or fails, every sleep ends, and a thread or task that can go on
\* does: the run does not stop while a step of it is possible
InitRunFair == InitRun /\ run_len <= MaxWindows
SpecRunFair == InitRunFair /\ [][RunNext]_vars /\ WF_vars(RunNext)

\* one window under every response within the bounds, every outcome of its
\* invocations, both error modes
InitWindow ==
    WindowInit /\ ChunkIdle /\ AlignIdle /\ DedupeIdle /\ E2EIdle /\ RunIdle /\ VizIdle
SpecWindow == InitWindow /\ [][WindowNext]_vars

\* visualize on every document within the bounds
InitViz ==
    VizInit /\ ChunkIdle /\ AlignIdle /\ DedupeIdle /\ E2EIdle /\ RunIdle
    /\ WindowIdle
SpecViz == InitViz /\ [][VizNext]_vars

-----------------------------------------------------------------------------
(* Properties *)

\* the windows ws cover exactly the offsets 0 .. n-1
Covers(ws, n) ==
    UNION {ws[i].start_char .. (ws[i].start_char + Len(ws[i].text) - 1) :
              i \in 1..Len(ws)} = 0..(n - 1)

\* t occurs in s, character for character
OccursIn(t, s) == Find(s, t, 0) # 0 - 1

\* C2 (as stated): an extraction whose text is a verbatim substring of the
\* window is resolved by exact search (strategy 1 or 2) to an interval
\* [start, end) with windowText[start:end] == extractionText, whatever was
\* aligned before it.
C2_RoundTripExact ==
    (al_ext # None /\ OccursIn(al_ext.extraction_text, al_text))
        => /\ al_how \in {"ordered", "unordered"}
           /\ al_ext.char_interval # None
           /\ Slice(al_text, al_ext.char_interval[1], al_ext.char_interval[2])
                 = al_ext.extraction_text

KeyOf(e) == <<e.extraction_class, Lower(JoinSpace(Tokens(e.extraction_text)))>>

Range(q) == {q[i] : i \in 1..Len(q)}

C4_DedupeTieBreak ==
    dd_pc = "done" =>
        \A o \in Range(dd_out) :
            /\ o \in Range(dd_in)
            /\ \A x \in Range(dd_in) :
                  \/ /\ o.char_interval = None => x.char_interval = None
                     /\ (o.char_interval # None /\ x.char_interval # None)
                           => o.char_interval[1] <= x.char_interval[1]
                  \/ KeyOf(x) # KeyOf(o)

\* C4 witness: the key's first input is unresolved, a later one is resolved,
\* a still later one is resolved at a smaller start, and the last is kept.
C4_Witness ==
    /\ dd_pc = "done" /\ Len(dd_in) = 3 /\ Len(dd_out) = 1
    /\ dd_in[1].char_interval = None
    /\ dd_in[2].char_interval # None /\ dd_in[3].char_interval # None
    /\ dd_in[3].char_interval[1] < dd_in[2].char_interval[1]
    /\ dd_out[1] = dd_in[3]

\* C1 (as stated): when a text occurs exactly once in the document and exactly
\* the windows that hold it report it, with one class, the result after dedupe
\* has exactly one extraction of that class and text, and its interval [s, e)
\* has document.text[s:e] equal to the text up to case.
C1_EndToEnd ==
    e2_pc = "done" =>
        LET hits == {i \in 1..Len(e2_result) :
                        /\ e2_result[i].extraction_class = "c"
                        /\ e2_result[i].extraction_text = e2_subject}
        IN  /\ Cardinality(hits) = 1
            /\ \A i \in hits :
                  /\ e2_result[i].char_interval # None
                  /\ Lower(Slice(e2_text, e2_result[i].char_interval[1],
                                 e2_result[i].char_interval[2]))
                        = Lower(e2_subject)

\* the windows whose task returned a failure
Failed == {i \in Windows : t_pc[i] = "done" /\ ~t_result[i].success}

\* the error entries recorded for window i
ErrorsOf(i) == {k \in 1..Len(run_errors) : run_errors[k].chunk_index = i}

\* the places of window i among the merged extractions
MergedAt(i) == {k \in 1..Len(run_all) : run_all[k] = i}

\* C6: in collect mode a run with a valid configuration never raises and,
\* once the text is split, never stops before it returns; when it returns, every window that
\* succeeded is merged once and has no error entry, every window that failed
\* is not merged and has exactly one error entry with its index and message,
\* so merged windows plus error entries is the number of windows.
C6_CollectReturns ==
    (run_mode = "return" /\ ~ChunkConfigInvalid(run_size, run_overlap)) =>
        /\ run_main \notin {"raised", "shutdown"}
        /\ run_main \notin {"call", "returned"} => ENABLED RunNext
        /\ run_main = "returned" =>
              /\ Len(run_all) + Len(run_errors) = run_n
              /\ \A i \in Windows :
                    IF t_result[i].success
                    THEN Cardinality(MergedAt(i)) = 1 /\ ErrorsOf(i) = {}
                    ELSE /\ MergedAt(i) = {}
                         /\ Cardinality(ErrorsOf(i)) = 1
                         /\ \A k \in ErrorsOf(i) :
                               run_errors[k].error = t_result[i].error

\* C6 witness: a collect-mode run has returned with one window failed and
\* another one merged
C6_Witness ==
    /\ run_mode = "return" /\ run_main = "returned"
    /\ Failed # {}
    /\ run_all # <<>>

\* C7 (as stated): in raise mode the failure that is propagated is that of
\* the window that completed first among the failed windows.
C7_RaiseFirstCompleted ==
    run_main = "raised" => run_raised.chunk_index = run_firstfail

\* C7 (amended): in raise mode a run with a failed window returns no result
\* and propagates the failure of a failed window, the first failed one the
\* main flow comes to: in aextract the failed window of lowest index; in
\* extract the first failed window that as_completed yields, which is one of
\* the failed windows already finished when as_completed started if there is
\* any, and else the failed window that completed first.
C7_RaiseFirstTaken ==
    (run_mode = "raise" /\ ~ChunkConfigInvalid(run_size, run_overlap)) =>
        /\ run_main = "returned" => Failed = {}
        /\ run_main = "raised" =>
              /\ run_raised.chunk_index \in Failed
              /\ run_raised.error = t_result[run_raised.chunk_index].error
              /\ run_taken[Len(run_taken)] = run_raised.chunk_index
              /\ \A k \in 1..(Len(run_taken) - 1) : t_result[run_taken[k]].success
              /\ run_variant = "aextract" =>
                    \A j \in Failed : run_raised.chunk_index <= j
              /\ run_variant = "extract" =>
                    IF run_snapshot \cap Failed # {}
                    THEN run_raised.chunk_index \in run_snapshot
                    ELSE run_raised.chunk_index = run_firstfail

\* C7 witness: a raise-mode run has raised the failure of a window that was
\* not the first failed window to complete
C7_Witness ==
    /\ run_mode = "raise" /\ run_main = "raised"
    /\ Cardinality(Failed) >= 2
    /\ run_raised.chunk_index # run_firstfail

\* C8: the model invocations in flight never exceed the bound: max_workers in
\* extract; in aextract max_concurrency, or when it is not given (or zero)
\* min(10, number of windows), at least 1.
C8_InFlightBounded ==
    InFlight <= IF run_variant = "extract" THEN run_limit[1]
                ELSE IF run_limit # None /\ run_limit[1] >= 1 THEN run_limit[1]
                ELSE IF run_n >= 10 THEN 10
                ELSE IF run_n >= 1 THEN run_n
                ELSE 1

\* C8 witness: ten invocations are in flight in a run of more than ten
\* windows without max_concurrency, and a window waits for a permit
C8_Witness ==
    /\ run_variant = "aextract" /\ run_limit = None /\ run_n > 10
    /\ InFlight = 10
    /\ \E i \in Windows : t_pc[i] = "gate"

\* C9 (as stated): with retries R >= 1, a window whose every invocation
\* raised has been invoked R + 1 times when its failure is returned.
C9_RetryCount ==
    \A i \in Windows :
        (/\ run_retries >= 1
         /\ t_pc[i] = "done"
         /\ t_hist[i] # <<>>
         /\ \A k \in 1..Len(t_hist[i]) : t_hist[i][k] = "exc")
        => Calls(i) = run_retries + 1

\* C10 (as stated): a window whose first response is not textual is not
\* invoked again: it is done after that one invocation.
C10_NonTextNotRetried ==
    \A i \in Windows :
        (t_hist[i] # <<>> /\ t_hist[i][1] = "nontext")
        => (Calls(i) = 1 /\ t_pc[i] = "done")

\* C10 (amended): a non-textual response is retried like any failed attempt:
\* a window whose every response was non-textual has been invoked
\* max(1, retries) times when it is done, its task returned a failure with the
\* type error, and in the result it has no extraction and exactly one error
\* entry.
C10_NonTextRetried ==
    \A i \in Windows :
        (/\ t_pc[i] = "done"
         /\ t_hist[i] # <<>>
         /\ \A k \in 1..Len(t_hist[i]) : t_hist[i][k] = "nontext")
        => /\ Calls(i) = IF run_retries >= 1 THEN run_retries ELSE 1
           /\ ~t_result[i].success
           /\ t_result[i].error = "TypeError"
           /\ run_main = "returned" =>
                 MergedAt(i) = {} /\ Cardinality(ErrorsOf(i)) = 1

\* C10 witness: a run has returned with a window that was invoked twice and
\* got a non-textual response both times
C10_Witness ==
    /\ run_main = "returned"
    /\ \E i \in Windows : t_hist[i] = <<"nontext", "nontext">>

\* C17: every window emitted by the split is non-empty, has at most chunk_size
\* characters, lies inside the text (start_char + len(window.text) <=
\* len(text)) and is the slice text[start_char : start_char + len(window.text)].
C17_WindowsWellFormed ==
    \A i \in 1..Len(ck_out) :
        /\ Len(ck_out[i].text) >= 1
        /\ Len(ck_out[i].text) <= ck_size
        /\ ck_out[i].start_char >= 0
        /\ ck_out[i].start_char + Len(ck_out[i].text) <= Len(ck_text)
        /\ ck_out[i].text
              = SubSeq(ck_text, ck_out[i].start_char + 1,
                       ck_out[i].start_char + Len(ck_out[i].text))

\* C17 witness: a finished split that dropped nothing, with full windows that
\* overlap and a shorter trailing one.
C17_Witness ==
    /\ ck_pc = "done" /\ Len(ck_out) >= 3 /\ ck_overlap > 0
    /\ Len(ck_out[1].text) = ck_size
    /\ Len(ck_out[Len(ck_out)].text) < ck_size
    /\ ck_out[2].text # ck_out[1].text

\* C18: the window starts are strictly increasing, the first is 0, each next
\* one is the previous plus (chunk_size - chunk_overlap), and the sequence is
\* finite: never more windows than characters.
C18_WindowProgress ==
    /\ ck_out # <<>> => ck_out[1].start_char = 0
    /\ \A i \in 1..(Len(ck_out) - 1) :
          /\ ck_out[i + 1].start_char
                = ck_out[i].start_char + (ck_size - ck_overlap)
          /\ ck_out[i + 1].start_char > ck_out[i].start_char
    /\ Len(ck_out) <= Len(ck_text)

\* C18 witness: a finished split of four windows or more whose windows overlap
\* by more than one character.
C18_Witness ==
    /\ ck_pc = "done" /\ Len(ck_out) >= 4 /\ ck_overlap >= 2
    /\ ck_out[Len(ck_out)].start_char = (Len(ck_out) - 1) * (ck_size - ck_overlap)

C16_IntervalInvariant ==
    (al_ext # None /\ al_ext.char_interval # None)
        => /\ 0 <= al_ext.char_interval[1]
           /\ al_ext.char_interval[1] < al_ext.char_interval[2]
           /\ al_ext.char_interval[2] <= Len(al_text)

Succeeded(i) == t_result[i].success

\* the window was not among the futures finished when as_completed started
Late(i) == i \notin run_snapshot

\* C15: with chunk_size <= 0, chunk_overlap < 0 or chunk_size <= chunk_overlap
\* the split raises a configuration error (ValueError) and gives no window,
\* and the call of extract or aextract ends with that error before any prompt
\* is rendered or any model invocation is made, in either error mode.
C15_InvalidConfigFails ==
    (run_variant # "idle"
     /\ (run_size <= 0 \/ run_overlap < 0 \/ run_size <= run_overlap))
        => /\ run_main \in {"call", "raised"}
           /\ run_n = 0
           /\ \A i \in DOMAIN t_pc : t_pc[i] \in {"new", "queued"} /\ t_hist[i] = <<>>
           /\ run_order = <<>> /\ run_taken = <<>>
           /\ run_main = "raised"
                 => run_raised = [chunk_index |-> -1, error |-> "ValueError"]

\* C15 witness: a collect-mode call on a non-empty text with a negative
\* overlap has raised.
C15_Witness ==
    /\ run_main = "raised" /\ run_mode = "return" /\ run_len > 0
    /\ run_size > 0 /\ run_overlap < 0
    /\ run_raised.error = "ValueError"

\* what the windows' results merge to when the loop over the results takes
\* them from window i on, in window order
RECURSIVE MergeFrom(_, _, _, _)
MergeFrom(results, i, all_extractions, errors) ==
    IF i \notin DOMAIN results
    THEN [all_extractions |-> all_extractions, errors |-> errors]
    ELSE MergeFrom(results, i + 1,
                   Consume(results[i], all_extractions, errors, "return").all_extractions,
                   Consume(results[i], all_extractions, errors, "return").errors)

\* the metadata written after that merge
MetadataOf(merged) ==
    Metadata(run_kwargs, run_size, run_overlap, run_n, merged.all_extractions,
             merged.errors)

\* the document an entry point returns for windows with these results:
\* extract returns early when there is no window, aextract does not
ReturnedBy(variant, results) ==
    IF variant = "extract" /\ run_n = 0
    THEN [extractions |-> <<>>, metadata |-> NoMetadata]
    ELSE [extractions |-> MergeFrom(results, 0, <<>>, <<>>).all_extractions,
          metadata |-> MetadataOf(MergeFrom(results, 0, <<>>, <<>>))]

\* a document up to the order of its lists
UpToOrder(doc) ==
    [extractions |-> Range(doc.extractions),
     count |-> Len(doc.extractions),
     metadata |-> [k \in DOMAIN doc.metadata |->
                      IF k = "errors" THEN Range(doc.metadata[k])
                      ELSE doc.metadata[k]]]

\* C13 (as stated): for the same document, configuration and behaviour of the
\* model on each window, extract and aextract return the same result up to
\* list order (the same extractions, the same error entries, the same
\* metadata), for every document including the empty one: what this call
\* returned is what the other entry point returns for the same windows'
\* results.
C13_SameResult ==
    run_main = "returned"
        => UpToOrder([extractions |-> run_all, metadata |-> run_metadata])
              = UpToOrder(ReturnedBy(IF run_variant = "extract" THEN "aextract"
                                     ELSE "extract",
                                     t_result))

\* C14 (as stated): in both entry points the merged list is the windows'
\* lists concatenated in the order in which the windows completed.
C14_CompletionOrder ==
    (run_main = "returned" /\ run_n <= MaxWindows)
        => run_all = SelectSeq(run_order, Succeeded)

\* C14 (amended): the merged list is the lists of the windows that succeeded,
\* concatenated in the order in which the main flow takes the results: in
\* aextract the order of the windows; in extract the windows already finished
\* when as_completed starts come first, in any order, and the others follow in
\* the order in which they completed.
C14_TakenOrder ==
    (run_main = "returned" /\ run_n <= MaxWindows)
        => /\ run_all = SelectSeq(run_taken, Succeeded)
           /\ Len(run_taken) = run_n
           /\ run_variant = "aextract"
                 => \A k \in 1..run_n : run_taken[k] = k - 1
           /\ run_variant = "extract"
                 => /\ Range(SubSeq(run_taken, 1, Cardinality(run_snapshot)))
                          = run_snapshot
                    /\ Range(SubSeq(run_order, 1, Cardinality(run_snapshot)))
                          = run_snapshot
                    /\ SubSeq(run_taken, Cardinality(run_snapshot) + 1, run_n)
                          = SelectSeq(run_order, Late)

\* C14 witness: a call of aextract has returned the lists of two windows
\* of which the second completed first.
C14_Witness ==
    /\ run_main = "returned" /\ run_variant = "aextract"
    /\ Len(run_all) = 2
    /\ run_order = <<1, 0>>

-----------------------------------------------------------------------------
(* One window: malformed and single-record responses *)

\* some stretch of the content is the JSON text of a list, or of a dict
\* with the key "extractions"
HoldsJsonList(content) ==
    \E i \in 0..(Len(content) - 1) :
        /\ content[i + 1] \in {"[", "{"}
        /\ \E j \in (i + 1)..Len(content) :
              /\ content[j] \in {"]", "}"}
              /\ json_loads(Slice(content, i, j)).ok
              /\ Usable(json_loads(Slice(content, i, j)).val)

\* C11: once the model has answered a window with a text that holds no JSON
\* list (prose, JSON cut off, the empty string), the model is not invoked
\* again for the window, the window's result is a success with no
\* extractions, the main flow records no error for it, and it raises
\* nothing, in raise mode too.
C11_MalformedIsSuccess ==
    w_response = "text" =>
        \/ /\ w_pc \notin {"prompt", "invoke", "raised"}
           /\ w_pc \in {"done", "returned"} =>
                 (w_result.success /\ w_result.extractions = <<>>)
           /\ w_pc = "returned" => (w_all = <<>> /\ w_errors = <<>>)
        \/ HoldsJsonList(w_content)

\* C11 witness: in raise mode with retries to spare, a response that is JSON
\* cut off has been taken by the main flow as a result
C11_Witness ==
    /\ w_pc = "returned"
    /\ w_response = "text"
    /\ w_mode = "raise"
    /\ w_retries = MaxRetries
    /\ w_calls = 1
    /\ w_content \in Broken
    /\ Len(w_content) > 1
    /\ ~HoldsJsonList(w_content)

\* C12: a response whose whole content is one record, a JSON object with
\* the keys extraction_class and extraction_text, gives the window exactly
\* one extraction, with that class and that text.
C12_SingleDictOneRecord ==
    \A pair \in RecordPairs :
        (w_pc = "done" /\ w_response = "text" /\ w_content = RecordText(pair)) =>
            /\ Len(w_result.extractions) = 1
            /\ w_result.extractions[1].extraction_class = pair[1]
            /\ w_result.extractions[1].extraction_text = pair[2]

-----------------------------------------------------------------------------
(* The trailing window *)

\* the windows of the stride over a text: one every chunk_size - chunk_overlap
\* characters from 0, each of chunk_size characters or up to the end of the
\* text, the last being the first that reaches the end
RECURSIVE StrideFrom(_, _, _, _)
StrideFrom(text, chunk_size, chunk_overlap, start) ==
    IF start + chunk_size >= Len(text)
    THEN <<TextChunk(Slice(text, start, Len(text)), start)>>
    ELSE <<TextChunk(Slice(text, start, start + chunk_size), start)>>
         \o StrideFrom(text, chunk_size, chunk_overlap,
                       start + chunk_size - chunk_overlap)

\* C30: with keep_trailing true every window of the stride is yielded; with
\* keep_trailing false the only window that may be missing is a last window
\* shorter than chunk_size that is not the first window, so a last window of
\* chunk_size characters, ending exactly at the end of the text, is yielded.
C30_TrailingRule ==
    (ck_pc = "done" /\ Len(ck_text) > 0) =>
        LET stride == StrideFrom(ck_text, ck_size, ck_overlap, 0)
            last == stride[Len(stride)]
        IN  \/ ck_out = stride
            \/ /\ ~ck_keep
               /\ Len(stride) > 1
               /\ Len(last.text) < ck_size
               /\ ck_out = SubSeq(stride, 1, Len(stride) - 1)

\* one turn of the aligner's loop: the extraction under the cursor is settled
AlignerTurn == al_ext = None /\ al_ext' # None

\* the update of last_match_end that one step of the aligner may make
MarkerStep ==
    IF AlignerTurn
    THEN IF al_ext'.char_interval # None /\ al_ext'.char_interval[1] >= al_last
         THEN al_last' = al_ext'.char_interval[2]
         ELSE al_last' = al_last
    ELSE al_last' = al_last

\* C28: the forward-progress marker of one window starts at 0, never
\* decreases, never exceeds the length of the window's text, and changes only
\* when an extraction is resolved at a start at or after it, and then it
\* becomes the end of that match.
C28_Marker ==
    /\ (al_how # "idle" => al_last = 0)
    /\ [](al_how # "idle" => (0 <= al_last /\ al_last <= Len(al_text)))
    /\ [][al_how # "idle" => (al_last' >= al_last /\ MarkerStep)]_vars

\* the text t occurs in the window at offset p, letter case apart
OccursAt(text, t, p) ==
    /\ p + Len(t) <= Len(text)
    /\ \A k \in 1..Len(t) : Lower1(text[p + k]) = Lower1(t[k])

\* the offsets at or after from where t occurs in the window
OccurrencesFrom(text, t, from) == {p \in from..Len(text) : OccursAt(text, t, p)}

FirstOf(S) == CHOOSE p \in S : \A q \in S : p <= q

\* what one turn of the loop does with a text that occurs in the window: the
\* first occurrence at or after the marker, the marker moving to its end, and
\* the first occurrence of the whole window when none is left after the marker
SuccessiveTurn(t) ==
    IF OccurrencesFrom(al_text, t, al_last) # {}
    THEN /\ al_ext'.char_interval =
                <<FirstOf(OccurrencesFrom(al_text, t, al_last)),
                  FirstOf(OccurrencesFrom(al_text, t, al_last)) + Len(t)>>
         /\ al_last' = FirstOf(OccurrencesFrom(al_text, t, al_last)) + Len(t)
    ELSE OccurrencesFrom(al_text, t, 0) # {} =>
         /\ al_ext'.char_interval =
                <<FirstOf(OccurrencesFrom(al_text, t, 0)),
                  FirstOf(OccurrencesFrom(al_text, t, 0)) + Len(t)>>
         /\ al_last' = al_last

\* C29: repeated texts take successive occurrences. Each listed copy of a text
\* is resolved to the first occurrence at or after the marker, which then
\* moves to the end of that occurrence, so that the i-th copy of k gets the
\* i-th non-overlapping occurrence; a copy for which no occurrence is left
\* after the marker is resolved to the first occurrence in the whole window,
\* and the marker does not move.
C29_Successive == [][AlignerTurn => SuccessiveTurn(al_ext'.extraction_text)]_vars

\* a normalized record as the JSON value {"extraction_class": ...,
\* "extraction_text": ..., "attributes": ...}
Canonical(rec) ==
    JDict(<<<<<<"C">>, JStr(rec.extraction_class)>>,
            <<<<"T">>, JStr(rec.extraction_text)>>,
            <<<<"R">>, rec.attributes>>>>)

CanonicalList(recs) == JList([k \in 1..Len(recs) |-> Canonical(recs[k])])

\* x is a list of canonical records: class and text non-empty trimmed
\* strings, attributes a mapping
IsCanonical(x) ==
    /\ x.t = "list"
    /\ \A k \in 1..Len(x.v) :
          /\ x.v[k].t = "dict" /\ Len(x.v[k].v) = 3
          /\ x.v[k].v[1][1] = <<"C">> /\ x.v[k].v[1][2].t = "str"
          /\ x.v[k].v[2][1] = <<"T">> /\ x.v[k].v[2][2].t = "str"
          /\ x.v[k].v[3][1] = <<"R">> /\ x.v[k].v[3][2].t = "dict"
          /\ x.v[k].v[1][2].v # <<>> /\ Strip(x.v[k].v[1][2].v) = x.v[k].v[1][2].v
          /\ x.v[k].v[2][2].v # <<>> /\ Strip(x.v[k].v[2][2].v) = x.v[k].v[2][2].v

\* C21: the normalizer returns a list of already-canonical records as it is,
\* the same records in the same order, and so
\* normalize(normalize(x)) = normalize(x) for every x it is given.
C21_Idempotent ==
    w_raw.found =>
        /\ transform_llm_extractions(
               CanonicalList(transform_llm_extractions(w_raw.val)))
              = transform_llm_extractions(w_raw.val)
        /\ IsCanonical(w_raw.val) =>
              CanonicalList(transform_llm_extractions(w_raw.val)) = w_raw.val

\* C21 witness: a window whose response was a list of one canonical record
\* with attributes, normalized.
C21_Witness ==
    /\ w_pc = "done" /\ w_raw.found /\ w_result.success
    /\ IsCanonical(w_raw.val)
    /\ Len(transform_llm_extractions(w_raw.val)) = 1
    /\ transform_llm_extractions(w_raw.val)[1].attributes # JDict(<<>>)

\* no strategy resolves the extraction in the window, wherever the marker is
NeverResolved(extraction, original_text) ==
    \A marker \in 0..Len(original_text) :
        AlignOne(extraction, original_text, marker).char_interval = None

\* C22: the aligner's output holds exactly the extractions it was given,
\* each once and in the order given; one that no strategy resolves is kept
\* with no interval, and class, text and attributes are those given.
C22_SequencePreserved ==
    (w_pc = "done" /\ w_result.success /\ w_raw.found) =>
        LET given == ValidatedItems(transform_llm_extractions(w_raw.val))
            out == w_result.extractions
        IN  /\ Len(out) = Len(given)
            /\ \A k \in 1..Len(given) :
                  /\ out[k].extraction_class = given[k].extraction_class
                  /\ out[k].extraction_text = given[k].extraction_text
                  /\ out[k].attributes = given[k].attributes
                  /\ NeverResolved(given[k], w_chunk.text)
                        => out[k].char_interval = None

\* C22 witness: a window whose response lists two extractions, the first one
\* unresolved and the second one resolved.
C22_Witness ==
    /\ w_pc = "done" /\ w_result.success /\ w_raw.found
    /\ Len(w_result.extractions) = 2
    /\ NeverResolved(Extraction(w_result.extractions[1].extraction_class,
                                w_result.extractions[1].extraction_text,
                                w_result.extractions[1].attributes),
                     w_chunk.text)
    /\ w_result.extractions[1].char_interval = None
    /\ w_result.extractions[2].char_interval # None

\* the extractions of the window before globalization: what align_extractions
\* gives on the window's text
LocalOf(raw_extractions, chunk) ==
    align_extractions(
        ValidatedItems(transform_llm_extractions(raw_extractions.val)),
        chunk.text)

\* the interval out is the interval local moved by the window's start, and
\* the document holds at it what the window holds at local
ShiftedOnce(local, out, chunk) ==
    IF local = None THEN out = None
    ELSE /\ out = <<local[1] + chunk.start_char, local[2] + chunk.start_char>>
         /\ Slice(DocOf(chunk), out[1], out[2]) = Slice(chunk.text, local[1], local[2])

\* C27: globalization happens exactly once. Every resolved extraction a
\* window returns has the interval (local start + start_char, local end +
\* start_char), so that the document's text at the global interval is the
\* window's text at the local one; an unresolved one keeps None; this is so
\* when the window was retried, and the list the main flow builds from it,
\* deduplicated or not, holds the extractions with these intervals.
C27_GlobalizedOnce ==
    (w_pc \in {"done", "returned"} /\ w_result.success /\ w_raw.found) =>
        LET local == LocalOf(w_raw, w_chunk)
            out == w_result.extractions
        IN  /\ Len(out) = Len(local)
            /\ \A k \in 1..Len(out) :
                  ShiftedOnce(local[k].char_interval, out[k].char_interval, w_chunk)
            /\ w_pc = "returned" =>
                  /\ w_all = out
                  /\ \A e \in {_dedupe_extractions(w_all)[k] :
                                 k \in 1..Len(_dedupe_extractions(w_all))} :
                        \E k \in 1..Len(out) : e = out[k]

\* window i leaves the queue in this step: _process_chunk has run up to its
\* first invocation, or to the return of the prompt failure
PromptStep(i) == t_pc[i] = "queued" /\ t_pc'[i] # "queued"

\* the window's prompt could not be built
PromptFailed(i) == t_pc[i] = "done" /\ t_result[i].error = "prompt_error"

\* C23: a prompt failure is immediate. A window whose prompt cannot be built
\* is done in the same step, without an invocation of the model, a retry or
\* a sleep, with a failure that carries the window's index; the other windows
\* are left as they are and go on to their own results.
C23_PromptFailureImmediate ==
    /\ [](\A i \in Windows :
             PromptFailed(i) =>
                 /\ t_result[i] = Failure(i, "prompt_error")
                 /\ Calls(i) = 0 /\ t_attempt[i] = 0)
    /\ [][\A i \in Windows :
             PromptStep(i) =>
                 /\ \/ t_pc'[i] \in {"invoking", "gate"}
                    \/ /\ t_pc'[i] = "done"
                       /\ t_result'[i] = Failure(i, "prompt_error")
                       /\ run_sem' = run_sem
                 /\ Calls(i) = 0 /\ t_hist' = t_hist /\ t_attempt' = t_attempt
                 /\ \A j \in Windows \ {i} :
                       t_pc'[j] = t_pc[j] /\ t_result'[j] = t_result[j]]_vars

\* C23 witness: a run has returned in which the prompt of window 0 could not
\* be built and window 1 succeeded after a retry: window 1 is merged, window 0
\* has the one error entry.
C23_Witness ==
    /\ run_main = "returned" /\ run_n = 2
    /\ PromptFailed(0) /\ Calls(0) = 0
    /\ t_hist[1] = <<"exc", "text">> /\ t_result[1].success
    /\ run_all = <<1>>
    /\ run_errors = <<[chunk_index |-> 0, error |-> "prompt_error"]>>

\* str(last_exc) for a failed attempt
ErrorOf(response) == IF response = "exc" THEN "exc" ELSE "TypeError"

\* C24: only the final failure is surfaced. Attempts are made only while
\* every earlier one failed; a window that is done after its attempts has a
\* success exactly if the last attempt succeeded, and otherwise a failure
\* with the error of the last attempt; the run's error list holds, for a
\* failed window, that error alone, and nothing for a window that succeeded.
C24_OnlyFinalFailure ==
    \A i \in Windows :
        /\ \A k \in 1..(Calls(i) - 1) : t_hist[i][k] # "text"
        /\ (t_pc[i] # "done" /\ Calls(i) > 0) => t_hist[i][Calls(i)] # "text"
        /\ (t_pc[i] = "done" /\ Calls(i) > 0) =>
              /\ t_result[i] = IF t_hist[i][Calls(i)] = "text" THEN Success(i)
                               ELSE Failure(i, ErrorOf(t_hist[i][Calls(i)]))
        /\ \A k \in ErrorsOf(i) :
              /\ t_pc[i] = "done" /\ ~t_result[i].success
              /\ run_errors[k].error = t_result[i].error
        /\ Cardinality(ErrorsOf(i)) <= 1

\* C24 witness: a run has returned in which window 0 succeeded on its second
\* attempt and window 1 failed twice with different errors: the error list
\* holds the second error of window 1 and nothing else.
C24_Witness ==
    /\ run_main = "returned" /\ run_n = 2
    /\ t_hist[0] = <<"exc", "text">> /\ t_result[0].success
    /\ t_hist[1] = <<"exc", "nontext">>
    /\ run_errors = <<[chunk_index |-> 1, error |-> "TypeError"]>>
    /\ run_all = <<0>>

\* C25: the metadata of a run is truthful. In every result returned for a
\* non-empty document, whatever provider_kwargs the caller passed, num_chunks
\* is the number of windows, num_extractions the length of the returned list,
\* model_name, chunk_size and chunk_overlap are the call's arguments, and the
\* key "errors" is there exactly if a window failed.
C25_MetadataTruthful ==
    (run_main = "returned" /\ run_len > 0) =>
        /\ run_metadata.num_chunks = run_n
        /\ run_metadata.num_extractions = Len(run_all)
        /\ run_metadata.model_name = "model"
        /\ run_metadata.chunk_size = run_size
        /\ run_metadata.chunk_overlap = run_overlap
        /\ ("errors" \in DOMAIN run_metadata)
              <=> (\E i \in Windows : ~t_result[i].success)

\* C26: serialization sanity. For every document, those with intervals that
\* start at or beyond the end of the text or reach past it included, every
\* interval the report serialization emits satisfies
\* 0 <= start < end <= len(text): an interval that has start >= end once it
\* is clamped to the text is dropped.
C26_SerializedSane ==
    \A k \in 1..Len(viz_out) :
        /\ 0 <= viz_out[k].char_interval[1]
        /\ viz_out[k].char_interval[1] < viz_out[k].char_interval[2]
        /\ viz_out[k].char_interval[2] <= Len(viz_text)

\* the offsets of the code fences of a response
FencesOf(text) == {at \in 0..(Len(text) - 1) : text[at + 1] = "F"}

\* the content of the first fenced block of a response that has one: what is
\* between its first two fences, without the tag and the whitespace around
FirstBlock(text) ==
    LET open == CHOOSE at \in FencesOf(text) : \A b \in FencesOf(text) : at <= b
        close == CHOOSE at \in FencesOf(text) \ {open} :
                     \A b \in FencesOf(text) \ {open} : at <= b
        inner == Slice(text, open + 1, close)
    IN  Strip(IF inner # <<>> /\ Head(inner) = "j" THEN Tail(inner) ELSE inner)

\* C31: the first fenced block wins. When the response has one or more
\* fenced blocks, the window's extractions are those of the content of the
\* first block alone: the prose around it and a later block give no record,
\* also when the first block holds no usable list and a later one does.
C31_FirstBlockWins ==
    (w_pc = "done" /\ w_result.success /\ Cardinality(FencesOf(w_content)) >= 2) =>
        w_result.extractions = ParseStripped(FirstBlock(w_content), w_chunk)

\* C31 witness: a response with two fenced blocks, the first without a usable
\* list and the second with a list of one record that the window would
\* resolve: the window returns no extraction.
C31_Witness ==
    /\ w_pc = "done" /\ w_result.success
    /\ Cardinality(FencesOf(w_content)) = 4
    /\ ~w_raw.found /\ w_result.extractions = <<>>
    /\ w_chunk.text = <<"a", "I", "a">>

\* the offset of the first opening bracket of a text that has one
FirstBracket(text) ==
    CHOOSE p \in 0..(Len(text) - 1) :
        /\ text[p + 1] \in {"{", "["}
        /\ \A b \in 0..(p - 1) : text[b + 1] \notin {"{", "[", "}", "]"}

\* the text is prose without brackets, then a well-formed JSON object or
\* array that ends at q, then anything
ProseThenJson(text, q) ==
    /\ \E p \in 0..(Len(text) - 1) :
          /\ text[p + 1] \in {"{", "["}
          /\ \A b \in 0..(p - 1) : text[b + 1] \notin {"{", "[", "}", "]"}
    /\ q > FirstBracket(text) /\ q <= Len(text)
    /\ text[q] \in {"}", "]"}
    /\ json_loads(Slice(text, FirstBracket(text), q)).ok

\* the scanner has run on the response: json.loads(content) failed
ScannerRan(text) == ~json_loads(text).ok

\* C32: the bracket scanner is string-aware. For a text made of bracket-free
\* prose, one well-formed JSON object or array and any trailing text, the
\* first candidate of the scanner is exactly the span of that JSON value,
\* whatever brackets, escaped quotes and escaped backslashes its strings hold.
C32_FirstCandidateIsJson ==
    (w_pc = "build" /\ ScannerRan(w_text)) =>
        \A q \in 1..Len(w_text) :
            ProseThenJson(w_text, q) =>
                /\ CandidateSpans(w_text) # <<>>
                /\ CandidateSpans(w_text)[1] = <<FirstBracket(w_text), q>>

\* C32 witness: the scanner has run on prose with a quote in it, then a list
\* whose record has the string "[\\" among its attributes, then text with
\* more brackets; the list was taken.
C32_Witness ==
    /\ w_pc = "build" /\ ScannerRan(w_text)
    /\ ProseThenJson(w_text, Len(w_text) - 3)
    /\ w_text[1] = "a" /\ w_text[2] = "\"" /\ w_text[4] = "["
    /\ w_text[Len(w_text) - 7] = "\\" /\ w_text[Len(w_text) - 8] = "\\"
    /\ w_raw.found /\ Len(w_raw.val.v) = 1

\* the items the normalizer goes through for a value taken from the response:
\* the value under "extractions" if it is a dict with that key, then a list
\* as it is and any other value as a list of one
ItemsOf(raw) ==
    LET inner == IF raw.t = "dict" /\ HasKey(raw, <<"E">>)
                 THEN GetKey(raw, <<"E">>) ELSE raw
    IN  IF inner.t = "list" THEN inner.v
        ELSE IF inner.t = "num" THEN <<JStr(PyStr(inner))>>
        ELSE <<inner>>

\* the values of the keys of an item whose lower case is among the synonyms
SynonymValues(item, synonyms) ==
    {item.v[k][2] : k \in {j \in 1..Len(item.v) : Lower(item.v[j][1]) \in synonyms}}

\* the record `rec` is the one the first applicable rule gives for the item
ByFirstRule(item, rec) ==
    IF SynonymValues(item, class_synonyms) # {}
       /\ SynonymValues(item, text_synonyms) # {}
    THEN /\ \E c \in SynonymValues(item, class_synonyms) :
               rec.extraction_class = Strip(PyStr(c))
         /\ \E t \in SynonymValues(item, text_synonyms) :
               rec.extraction_text = Strip(PyStr(t))
    ELSE IF Len(item.v) = 1
    THEN /\ rec.extraction_class = Strip(item.v[1][1])
         /\ rec.extraction_text = Strip(PyStr(item.v[1][2]))
    ELSE IF HasKey(item, <<"L">>) /\ (HasKey(item, <<"S">>) \/ HasKey(item, <<"X">>))
    THEN rec.extraction_class = Strip(PyStr(GetKey(item, <<"L">>)))
    ELSE /\ rec.extraction_class = <<"u">>
         /\ rec.extraction_text = Strip(json_dumps(item))

\* C33: the shapes of an object item are tried in a fixed order. Every object
\* among the items of the response that has no list under "extractions"
\* gives exactly one record: that of the synonym keys when a class-like and
\* a text-like key are both there, in whatever case; else that of its single
\* key; else that of label with span or text; else "unknown" with the item
\* in JSON.
C33_FirstRuleApplies ==
    (w_pc = "build" /\ w_raw.found) =>
        \A k \in 1..Len(ItemsOf(w_raw.val)) :
            LET item == ItemsOf(w_raw.val)[k]
            IN  (item.t = "dict"
                 /\ ~(HasKey(item, <<"E">>) /\ GetKey(item, <<"E">>).t = "list"))
                => /\ Len(TransformItem(item)) = 1
                   /\ ByFirstRule(item, TransformItem(item)[1])

\* C33 witness: the response is a list of one object whose class key is
\* written in capitals, beside a text key, and the record is made from them.
C33_Witness ==
    /\ w_pc = "build" /\ w_raw.found /\ w_raw.val.t = "list"
    /\ Len(w_raw.val.v) = 1 /\ w_raw.val.v[1].t = "dict"
    /\ HasKey(w_raw.val.v[1], <<"K">>) /\ HasKey(w_raw.val.v[1], <<"T">>)
    /\ TransformItem(w_raw.val.v[1])[1].extraction_class = <<"a">>

\* how deep the calls of the normalizer are followed
MaxCallDepth == 3

\* the arguments of the calls of transform_llm_extractions that the body of
\* `for item in items` makes for one item: the item if it is a list, the list
\* under "extractions" of a dict, what json.loads makes of a stripped string
CallsForItem(item) ==
    IF item.t = "list" THEN <<item>>
    ELSE IF item.t = "dict"
    THEN IF HasKey(item, <<"E">>) /\ GetKey(item, <<"E">>).t = "list"
         THEN <<GetKey(item, <<"E">>)>> ELSE <<>>
    ELSE IF item.t = "str" /\ json_loads(Strip(item.v)).ok
    THEN <<json_loads(Strip(item.v)).val>>
    ELSE <<>>

RECURSIVE CallsForItems(_)
CallsForItems(items) ==
    IF items = <<>> THEN <<>>
    ELSE CallsForItem(Head(items)) \o CallsForItems(Tail(items))

\* the arguments of the calls that transform_llm_extractions(raw) makes
NestedCalls(raw) == CallsForItems(ItemsOf(raw))

\* the size of a value: the length of its JSON text
Size(x) == Len(json_dumps(x))

\* every call made under transform_llm_extractions(raw), down to `depth`
\* calls, is on a value strictly smaller than that of the call that makes it
RECURSIVE Decreasing(_, _)
Decreasing(raw, depth) ==
    \/ depth = 0
    \/ \A k \in 1..Len(NestedCalls(raw)) :
          /\ Size(NestedCalls(raw)[k]) < Size(raw)
          /\ Decreasing(NestedCalls(raw)[k], depth - 1)

\* C35: the recursion of the normalizer terminates. Every call that the
\* normalization of a response makes to itself (for a nested list, for a list
\* under "extractions", for a string item that parses as JSON, a number such
\* as "7" included) is on a strictly smaller value than the call that makes it.
C35_CallsDecrease ==
    (w_pc = "build" /\ w_raw.found) => Decreasing(w_raw.val, MaxCallDepth)

\* the candidate spans are one after the other: none is empty and each ends
\* no later than the next begins
InOrder(spans) ==
    /\ \A k \in 1..Len(spans) : 0 <= spans[k][1] /\ spans[k][1] < spans[k][2]
    /\ \A k \in 1..(Len(spans) - 1) : spans[k][2] <= spans[k + 1][1]

\* text[p:q] is a usable list of at least one item strictly inside the span
ListInside(text, span, p, q) ==
    /\ span[1] < p /\ p < q /\ q < span[2]
    /\ text[p + 1] = "[" /\ text[q] = "]"
    /\ json_loads(Slice(text, p, q)).ok
    /\ json_loads(Slice(text, p, q)).val.t = "list"
    /\ json_loads(Slice(text, p, q)).val.v # <<>>

\* the candidate of the span parses to a dict without the key "extractions"
UnusableObject(text, span) ==
    /\ json_loads(Slice(text, span[1], span[2])).ok
    /\ json_loads(Slice(text, span[1], span[2])).val.t = "dict"
    /\ ~HasKey(json_loads(Slice(text, span[1], span[2])).val, <<"E">>)

\* the spans of the scan of the text hold such an object with a usable list
\* inside it, and nothing else that parses to a list or to a dict with
\* "extractions"
OnlyUnusableOuter(text, spans) ==
    /\ \A k \in 1..Len(spans) :
          \/ ~json_loads(Slice(text, spans[k][1], spans[k][2])).ok
          \/ UnusableObject(text, spans[k])
    /\ \E k \in 1..Len(spans) :
          /\ UnusableObject(text, spans[k])
          /\ \E p \in (spans[k][1] + 1)..(spans[k][2] - 1) :
                /\ text[p + 1] = "["
                /\ \E q \in (p + 1)..(spans[k][2] - 1) :
                      ListInside(text, spans[k], p, q)

\* C39: the candidates of the bracket scanner do not overlap. The spans it
\* returns are pairwise disjoint and in left-to-right order, so no span inside
\* a returned span is offered; and when the whole content did not parse and
\* the only candidate that parses is an object without "extractions", a list
\* nested inside it is not tried and the window yields no extraction.
C39_CandidatesDisjoint ==
    (w_pc \in {"build", "done"} /\ w_text # None /\ ScannerRan(w_text)) =>
        /\ InOrder(CandidateSpans(w_text))
        /\ OnlyUnusableOuter(w_text, CandidateSpans(w_text)) =>
              /\ ~w_raw.found
              /\ w_pc = "done" => /\ w_result.success
                                  /\ w_result.extractions = <<>>

\* C39 witness: the window is done on prose followed by an object without
\* "extractions" that holds a list of one record; nothing was extracted.
C39_Witness ==
    /\ w_pc = "done" /\ w_text # None /\ ScannerRan(w_text)
    /\ OnlyUnusableOuter(w_text, CandidateSpans(w_text))
    /\ Len(CandidateSpans(w_text)) = 1
    /\ w_result.extractions = <<>>

\* the processor of window i ran to its end: its prompt could not be built
\* and no invocation was made, or it returned after a textual response, or
\* after max(1, retries) invocations that all failed
RanToCompletion(i) ==
    /\ t_pc[i] = "done"
    /\ IF t_result[i].success
       THEN Calls(i) >= 1 /\ t_hist[i][Calls(i)] = "text"
       ELSE \/ t_result[i].error = "prompt_error" /\ Calls(i) = 0
            \/ /\ Calls(i) = Attempts(run_retries)
               /\ \A k \in 1..Calls(i) : t_hist[i][k] # "text"

\* C36: raise mode does not cancel siblings. In extract and in aextract the
\* failure of a window reaches the caller only when the processor of every
\* window has run to completion, with all its attempts; no window that was
\* queued or in flight is cancelled or skipped.
C36_RaisedAfterAll ==
    (run_main = "raised" /\ run_n > 0) => \A i \in Windows : RanToCompletion(i)

\* C36 witness: extract has raised the failure of the window that completed
\* first; a sibling that completed after it was invoked twice and succeeded.
C36_Witness ==
    /\ run_variant = "extract" /\ run_main = "raised" /\ run_n = 2
    /\ run_raised.chunk_index = run_order[1]
    /\ Calls(run_order[2]) = 2 /\ t_result[run_order[2]].success

\* the windows of aextract between their first attempt and their final
\* outcome: in an invocation or in a backoff sleep
Admitted == {i \in Windows : t_pc[i] \in {"invoking", "sleeping"}}

\* the bound of aextract: max_concurrency, or without it (or with 0) the
\* number of windows, at most 10 and at least 1
AdmissionBound ==
    IF run_limit # None /\ run_limit[1] >= 1 THEN run_limit[1]
    ELSE IF run_n >= 10 THEN 10
    ELSE IF run_n >= 1 THEN run_n
    ELSE 1

\* the slots held and the slots free make the bound
SlotsHeld ==
    (run_variant = "aextract" /\ run_main \in {"gather", "collect", "returned", "raised"}
     /\ run_n > 0)
        => /\ Cardinality(Admitted) <= AdmissionBound
           /\ run_sem = AdmissionBound - Cardinality(Admitted)

\* a step that admits a window that waited: a slot was free before it, given
\* back by a window that was admitted and has finished all its attempts; and
\* a window that goes to sleep or wakes up keeps its slot
AdmitStep ==
    run_variant = "aextract" =>
        \A i \in Windows :
            /\ (t_pc[i] = "gate" /\ t_pc'[i] # "gate")
                  => /\ t_pc'[i] = "invoking"
                     /\ Cardinality(Admitted) < AdmissionBound
                     /\ \E j \in Windows : t_pc[j] = "done" /\ Calls(j) >= 1
            /\ (i \in Admitted /\ t_pc'[i] # "done") => i \in Admitted'

\* C37: the admission slot is held across retries. In aextract a window keeps
\* its slot from its first attempt to its final outcome, backoff sleeps
\* included: at most B windows are between first attempt and final outcome,
\* and a window that waits is admitted only after an admitted window has
\* finished all of its attempts.
C37_SlotHeld == []SlotsHeld /\ [][AdmitStep]_vars

\* C37 witness: with a bound of 1 one window sleeps between two attempts
\* while the other waits for the slot.
C37_Witness ==
    /\ run_variant = "aextract" /\ AdmissionBound = 1 /\ run_n = 2
    /\ \E i, j \in Windows : t_pc[i] = "sleeping" /\ t_pc[j] = "gate"

\* the call is over: a document was returned or an exception propagated
RunOver == run_main \in {"returned", "raised"}

\* when the call is over every window was admitted and is done, no worker is
\* busy and every permit of the semaphore is back
NothingHeld ==
    (RunOver /\ run_n > 0) =>
        /\ \A i \in Windows : t_pc[i] = "done"
        /\ \A i \in Windows : Calls(i) <= Attempts(run_retries)
        /\ Busy = 0
        /\ run_variant = "aextract" => run_sem = AdmissionBound

\* C34: runs terminate. When every model invocation eventually returns or
\* fails, every call of extract and aextract ends with a document or with a
\* propagated failure, for every bound of at least 1 and every number of
\* windows; by then every window was admitted, made at most max(1, retries)
\* attempts and gave back its worker or its permit.
C34_Terminates == <>RunOver /\ []NothingHeld

\* C34 witness: aextract with a bound of 1 has returned after two windows
\* were invoked, one of them twice: the second had to wait for the permit of
\* the first.
C34_Witness ==
    /\ run_variant = "aextract" /\ run_main = "returned"
    /\ AdmissionBound = 1 /\ run_n = 2
    /\ Calls(0) = 2 /\ Calls(1) >= 1
    /\ run_sem = 1

\* the start of the interval of an extraction, -1 for one without interval
StartOf(e) == IF e.char_interval = None THEN 0 - 1 ELSE e.char_interval[1]

\* the (class, normalized text, interval start) triples of a list
Triples(result) ==
    {<<result[i].extraction_class, KeyOf(result[i])[2], StartOf(result[i])>> :
        i \in 1..Len(result)}

\* of a set of triples, those that are left whatever the order they come in:
\* for each key the one with the smallest start among the resolved ones, or
\* the unresolved one when none is resolved
Least(triples) ==
    {t \in triples :
        \A u \in triples :
            (u[1] = t[1] /\ u[2] = t[2]) =>
                \/ u[3] = 0 - 1
                \/ (t[3] >= 0 /\ t[3] <= u[3])}

\* C38: dedupe is insensitive to the completion order. With the extractions
\* of every window fixed, the (class, normalized text, interval start)
\* triples of the deduplicated result are the same in whatever order the
\* windows complete: they are fixed by the set of the extractions merged, and
\* the order in which they are merged decides only the order of the list and
\* the choice among duplicates of equal start.
C38_OrderInsensitive ==
    dd_pc = "done" => Triples(dd_out) = Least(Triples(dd_in))

\* C38 witness: three extractions of one key, the first unresolved and the
\* others at different starts, are deduplicated to one; in the reverse order
\* another of them is the first to be kept.
C38_Witness ==
    /\ dd_pc = "done" /\ Len(dd_in) = 3 /\ Len(dd_out) = 1
    /\ dd_in[1].char_interval = None
    /\ StartOf(dd_in[2]) > StartOf(dd_in[3]) /\ StartOf(dd_in[3]) >= 0
    /\ dd_in[1].extraction_text # dd_in[3].extraction_text
    /\ StartOf(dd_out[1]) = StartOf(dd_in[3])

\* C40: credentials do not flow into the result. No entry of provider_kwargs,
\* the api_key among them, is in the metadata of the document returned (from
\* where the report would take it): two calls that differ only in their
\* api_key return the same document.
C40_NoCredentialFlow ==
    (run_main = "returned" /\ run_kwargs # None) =>
        /\ "api_key" \notin DOMAIN run_metadata
        /\ \A k \in DOMAIN run_kwargs :
              k \in DOMAIN run_metadata => run_metadata[k] # run_kwargs[k]

====
